---- MODULE Spec2Model ----
(***************************************************************************)
(* Model of the numeric routines of the Fingpt dashboard front end          *)
(* (RiskAnalysis.js, TechnicalAnalysis).                                     *)
(*                                                                           *)
(* A JavaScript number is modelled as an exact extended rational            *)
(* [n |-> numerator, d |-> denominator] in lowest terms with d >= 0:        *)
(* d = 0 stands for the IEEE-754 special values, 1/0 = Infinity,            *)
(* -1/0 = -Infinity and 0/0 = NaN.  Rounding of finite results and the      *)
(* sign of zero are not modelled.                                            *)
(***************************************************************************)
EXTENDS Integers, Sequences, FiniteSets, TLC

VARIABLES page, returns, prices, priceData, given, last

\* RiskAnalysis and TechnicalAnalysis: the useState cells and the position of
\* the analysis run in flight
VARIABLES symbols, symbol, selectedPeriod, loading, riskMetrics,
          correlationMatrix, marketData, indicators, run

\* the antd message put on screen by the latest handler
VARIABLE message

\* Header: the useState cells, the two forms, localStorage, the health checks
\* started since mount, the logout confirmation and the reload timer
VARIABLES mounted, apiStatus, notifications, checks, clearedAll,
          profileModalVisible, settingsModalVisible, userProfile, userSettings,
          profileForm, settingsForm, localStorage, confirmOpen, reloadTimer

\* the router: the history stack, whose last entry is the current location;
\* page is the element the Routes render for it
VARIABLE history

\* PortfolioOptimizer: the useState cells next to symbols, the query and the
\* body of the latest POST /api/portfolio/optimize
VARIABLES inputValue, method, riskFreeRateState, isFetching, optimizationData,
          sent

\* Backtesting and SentimentAnalysis: the useState cells (symbol is the one
\* above, sentimentText is the cell text) and the page queries
VARIABLES strategy, startDate, endDate, initialCash, sentimentText, batchTexts,
          queries

analysisVars == <<symbols, symbol, selectedPeriod, loading, riskMetrics,
                  correlationMatrix, marketData, indicators, run>>

optimizerVars == <<inputValue, method, riskFreeRateState, isFetching,
                   optimizationData, sent>>

formVars == <<strategy, startDate, endDate, initialCash, sentimentText,
              batchTexts, queries>>

\* the state of the pages
pageVars == <<analysisVars, optimizerVars, formVars>>

statusVars == <<mounted, apiStatus, notifications, checks, clearedAll>>

userVars == <<profileModalVisible, settingsModalVisible, userProfile,
              userSettings, profileForm, settingsForm, localStorage,
              confirmOpen, reloadTimer>>

headerVars == <<statusVars, userVars>>

routineVars == <<page, history, returns, prices, priceData, given, last>>

\* what the routines of the two pages do not touch
shellVars == <<history, pageVars, message, headerVars>>

vars == <<routineVars, pageVars, message, headerVars>>

----------------------------------------------------------------------------
(* Bounds of the model *)

MaxRetLen == 3
MaxRet == 2
MaxPriceLen == 4
MaxPrice == 3
MaxCorrLen == 4

----------------------------------------------------------------------------
(* JavaScript number arithmetic *)

IAbs(i) == IF i < 0 THEN -i ELSE i

ISgn(i) == IF i < 0 THEN -1 ELSE IF i > 0 THEN 1 ELSE 0

RECURSIVE GCD(_, _)
GCD(a, b) == IF b = 0 THEN a ELSE GCD(b, a % b)

Num(n, d) ==
    IF d = 0 THEN [n |-> ISgn(n), d |-> 0]
    ELSE LET g == GCD(IAbs(n), IAbs(d))
         IN  [n |-> ISgn(d) * ISgn(n) * (IAbs(n) \div g), d |-> IAbs(d) \div g]

FromInt(i) == [n |-> i, d |-> 1]

NaN == [n |-> 0, d |-> 0]

IsNaN(x) == x.d = 0 /\ x.n = 0

IsFinite(x) == x.d > 0

JsNeg(x) == [n |-> -x.n, d |-> x.d]

JsAdd(x, y) ==
    IF x.d = 0 /\ y.d = 0
    THEN (IF x.n = y.n THEN x ELSE NaN)
    ELSE IF x.d = 0 THEN x
    ELSE IF y.d = 0 THEN y
    ELSE LET g == GCD(x.d, y.d)
         IN  Num(x.n * (y.d \div g) + y.n * (x.d \div g), (x.d \div g) * y.d)

JsSub(x, y) == JsAdd(x, JsNeg(y))

JsMul(x, y) ==
    IF x.d = 0 \/ y.d = 0
    THEN Num(x.n * y.n, 0)
    ELSE LET g1 == GCD(IAbs(x.n), y.d)
             g2 == GCD(IAbs(y.n), x.d)
         IN  Num((x.n \div g1) * (y.n \div g2), (x.d \div g2) * (y.d \div g1))

JsDiv(x, y) ==
    IF x.d = 0 /\ y.d = 0 THEN NaN
    ELSE JsMul(x, Num(y.d, y.n))

\* x < y, false when either side is NaN
JsLt(x, y) ==
    /\ ~IsNaN(x)
    /\ ~IsNaN(y)
    /\ IF x.d = 0 \/ y.d = 0
       THEN (IF x.d = 0 /\ y.d = 0 THEN x.n < y.n
             ELSE IF x.d = 0 THEN x.n < 0 ELSE y.n > 0)
       ELSE x.n * y.d < y.n * x.d

JsGt(x, y) == JsLt(y, x)

\* x === y on numbers: NaN is equal to nothing
JsEq(x, y) == ~IsNaN(x) /\ x = y

JsAbs(x) == [n |-> IAbs(x.n), d |-> x.d]

\* x || 0 : 0 and NaN are falsy
JsOr0(x) == IF IsNaN(x) \/ x = FromInt(0) THEN FromInt(0) ELSE x

\* Math.floor of a finite number
JsFloor(x) == x.n \div x.d

\* array.reduce((a, b) => a + b, 0)
RECURSIVE SumFrom(_, _, _)
SumFrom(s, i, acc) ==
    IF i > Len(s) THEN acc ELSE SumFrom(s, i + 1, JsAdd(acc, s[i]))

Sum(s) == SumFrom(s, 1, FromInt(0))

\* array.slice(from, to) with 0-based bounds, 0 <= from
Slice(s, from, to) ==
    LET hi == IF to > Len(s) THEN Len(s) ELSE to
    IN  IF hi <= from THEN <<>> ELSE SubSeq(s, from + 1, hi)

\* [...array].sort((a, b) => a - b) : a new array in ascending numeric order
RECURSIVE Insert(_, _)
Insert(sorted, x) ==
    IF sorted = <<>> THEN <<x>>
    ELSE IF JsLt(x, Head(sorted)) THEN <<x>> \o sorted
    ELSE <<Head(sorted)>> \o Insert(Tail(sorted), x)

RECURSIVE SortAscFrom(_, _, _)
SortAscFrom(s, i, acc) ==
    IF i > Len(s) THEN acc ELSE SortAscFrom(s, i + 1, Insert(acc, s[i]))

SortAsc(s) == SortAscFrom(s, 1, <<>>)

\* array[index] || 0 with a 0-based index; a missing element is undefined
ElemOr0(s, index) ==
    IF index >= 0 /\ index < Len(s) THEN JsOr0(s[index + 1]) ELSE FromInt(0)


----------------------------------------------------------------------------
(* Math.sqrt without rounding: a number a + b * sqrt(r), with a and b       *)
(* rationals and r a square-free integer (r = 1 and b = 0 for a rational)   *)

Zero == FromInt(0)

MkRoot(a, b, r) ==
    IF r = 1 THEN [a |-> JsAdd(a, b), b |-> Zero, r |-> 1]
    ELSE IF b = Zero THEN [a |-> a, b |-> Zero, r |-> 1]
    ELSE [a |-> a, b |-> b, r |-> r]

FromRat(x) == [a |-> x, b |-> Zero, r |-> 1]

\* the largest s with s * s dividing n, for n >= 1
RECURSIVE SquarePart(_, _)
SquarePart(n, k) ==
    IF k * k > n THEN 1
    ELSE IF n % (k * k) = 0 THEN k * SquarePart(n \div (k * k), k)
    ELSE IF n % k = 0 THEN SquarePart(n \div k, k + 1)
    ELSE SquarePart(n, k + 1)

\* Math.sqrt(x) of a finite rational: NaN below zero
MathSqrt(x) ==
    IF x.n < 0 THEN FromRat(NaN)
    ELSE IF x.n = 0 THEN FromRat(Zero)
    ELSE LET s1 == SquarePart(x.n, 2)
             s2 == SquarePart(x.d, 2)
             t1 == x.n \div (s1 * s1)
             t2 == x.d \div (s2 * s2)
         IN  MkRoot(Zero, Num(s1, s2 * t2), t1 * t2)

RootField(x, y) == IF x.r = 1 THEN y.r ELSE x.r

RootNeg(x) == [a |-> JsNeg(x.a), b |-> JsNeg(x.b), r |-> x.r]

RootAdd(x, y) == MkRoot(JsAdd(x.a, y.a), JsAdd(x.b, y.b), RootField(x, y))

RootSub(x, y) == RootAdd(x, RootNeg(y))

RootMul(x, y) ==
    LET r == RootField(x, y)
    IN  MkRoot(JsAdd(JsMul(x.a, y.a), JsMul(JsMul(x.b, y.b), FromInt(r))),
               JsAdd(JsMul(x.a, y.b), JsMul(x.b, y.a)), r)

\* x / y; a division by zero gives Infinity or NaN as in JsDiv
RootDiv(x, y) ==
    IF y.b = Zero
    THEN MkRoot(JsDiv(x.a, y.a), IF x.b = Zero THEN Zero ELSE JsDiv(x.b, y.a), x.r)
    ELSE LET conj == [a |-> y.a, b |-> JsNeg(y.b), r |-> y.r]
             norm == JsSub(JsMul(y.a, y.a), JsMul(JsMul(y.b, y.b), FromInt(y.r)))
             top == RootMul(x, conj)
         IN  MkRoot(JsDiv(top.a, norm), JsDiv(top.b, norm), top.r)

\* the sign of a finite a + b * sqrt(r)
RootSgn(x) ==
    IF x.b.n = 0 THEN ISgn(x.a.n)
    ELSE IF x.a.n = 0 THEN ISgn(x.b.n)
    ELSE IF ISgn(x.a.n) = ISgn(x.b.n) THEN ISgn(x.a.n)
    ELSE LET a2 == JsMul(x.a, x.a)
             b2r == JsMul(JsMul(x.b, x.b), FromInt(x.r))
         IN  IF JsLt(b2r, a2) THEN ISgn(x.a.n) ELSE ISgn(x.b.n)

RootLe(x, y) == RootSgn(RootSub(y, x)) >= 0

\* x * x of a pure root b * sqrt(r) or a rational, as a rational
RootSquare(x) == RootMul(x, x).a

----------------------------------------------------------------------------
(* RiskAnalysis.js: risk metrics over an array of returns *)

\* mutant: indexes the array as given, without sorting
calculateVaR_Unsorted(rets, confidence) ==
    IF Len(rets) = 0 THEN Zero
    ELSE LET index == JsFloor(JsMul(confidence, FromInt(Len(rets))))
         IN  JsAbs(ElemOr0(rets, index))

calculateVaR(rets, confidence) ==
    IF Len(rets) = 0 THEN FromInt(0)
    ELSE LET sortedReturns == SortAsc(rets)
             index == JsFloor(JsMul(confidence, FromInt(Len(sortedReturns))))
         IN  JsAbs(ElemOr0(sortedReturns, index))

\* mutant: the tail takes in the VaR element, slice(0, varIndex + 1)
calculateCVaR_InclusiveTail(rets, confidence) ==
    IF Len(rets) = 0 THEN Zero
    ELSE LET sortedReturns == SortAsc(rets)
             varIndex == JsFloor(JsMul(confidence, FromInt(Len(sortedReturns))))
             tailReturns == Slice(sortedReturns, 0, varIndex + 1)
         IN  JsAbs(JsOr0(JsDiv(Sum(tailReturns), FromInt(Len(tailReturns)))))

calculateCVaR(rets, confidence) ==
    IF Len(rets) = 0 THEN FromInt(0)
    ELSE LET sortedReturns == SortAsc(rets)
             varIndex == JsFloor(JsMul(confidence, FromInt(Len(sortedReturns))))
             tailReturns == Slice(sortedReturns, 0, varIndex)
         IN  JsAbs(JsOr0(JsDiv(Sum(tailReturns), FromInt(Len(tailReturns)))))

\* for (let i = 1; i < prices.length; i++) of calculateMaxDrawdown; i is 0-based
RECURSIVE MaxDrawdownLoop(_, _, _, _)
MaxDrawdownLoop(p, i, maxPrice, maxDrawdown) ==
    IF i >= Len(p) THEN maxDrawdown
    ELSE LET peak == IF JsGt(p[i + 1], maxPrice) THEN p[i + 1] ELSE maxPrice
             drawdown == JsDiv(JsSub(peak, p[i + 1]), peak)
         IN  MaxDrawdownLoop(p, i + 1, peak,
                             IF JsGt(drawdown, maxDrawdown) THEN drawdown ELSE maxDrawdown)

\* mutant: the peak stays at the first price
calculateMaxDrawdown_FirstPeak(p) ==
    IF Len(p) = 0 THEN Zero
    ELSE LET dd[i \in 1..Len(p)] ==
                LET drawdown == JsDiv(JsSub(p[1], p[i]), p[1])
                IN  IF i = 1 THEN Zero
                    ELSE IF JsGt(drawdown, dd[i - 1]) THEN drawdown ELSE dd[i - 1]
         IN  dd[Len(p)]

calculateMaxDrawdown(p) ==
    IF Len(p) = 0 THEN Zero
    ELSE MaxDrawdownLoop(p, 1, p[1], Zero)

TradingDays == 252

\* returns.reduce((a, b) => a + Math.pow(b - avgReturn, 2), 0)
RECURSIVE SumSqDev(_, _, _, _)
SumSqDev(s, avg, i, acc) ==
    IF i > Len(s) THEN acc
    ELSE LET dev == JsSub(s[i], avg)
         IN  SumSqDev(s, avg, i + 1, JsAdd(acc, JsMul(dev, dev)))

\* mutant: the annual risk-free rate is not brought to a daily rate
calculateSharpeRatio_AnnualRate(rets, riskFreeRate) ==
    IF Len(rets) = 0 THEN FromRat(Zero)
    ELSE LET avgReturn == JsDiv(Sum(rets), FromInt(Len(rets)))
             volatility == MathSqrt(JsDiv(SumSqDev(rets, avgReturn, 1, Zero),
                                          FromInt(Len(rets))))
         IN  IF volatility = FromRat(Zero) THEN FromRat(Zero)
             ELSE RootDiv(FromRat(JsSub(avgReturn, riskFreeRate)), volatility)

calculateSharpeRatio(rets, riskFreeRate) ==
    IF Len(rets) = 0 THEN FromRat(Zero)
    ELSE LET avgReturn == JsDiv(Sum(rets), FromInt(Len(rets)))
             volatility == MathSqrt(JsDiv(SumSqDev(rets, avgReturn, 1, Zero),
                                          FromInt(Len(rets))))
         IN  IF volatility = FromRat(Zero) THEN FromRat(Zero)
             ELSE RootDiv(FromRat(JsSub(avgReturn,
                                        JsDiv(riskFreeRate, FromInt(TradingDays)))),
                          volatility)

----------------------------------------------------------------------------
(* TechnicalAnalysis: indicators over a price series *)

Hundred == FromInt(100)

\* gains[i] and losses[i] for the change from prices[i] to prices[i + 1] (0-based)
Gains(p) ==
    [i \in 1..(Len(p) - 1) |->
        LET change == JsSub(p[i + 1], p[i])
        IN  IF JsGt(change, Zero) THEN change ELSE Zero]

Losses(p) ==
    [i \in 1..(Len(p) - 1) |->
        LET change == JsSub(p[i + 1], p[i])
        IN  IF JsLt(change, Zero) THEN JsAbs(change) ELSE Zero]

\* for (let i = period; i < gains.length; i++) of calculateRSI; i is 0-based
RECURSIVE RSILoop(_, _, _, _, _, _, _)
RSILoop(gains, losses, period, i, avgGain, avgLoss, rsi) ==
    IF i >= Len(gains) THEN rsi
    ELSE LET per == FromInt(period)
             g == JsDiv(JsAdd(JsMul(avgGain, FromInt(period - 1)), gains[i + 1]), per)
             l == JsDiv(JsAdd(JsMul(avgLoss, FromInt(period - 1)), losses[i + 1]), per)
             rs == JsDiv(g, l)
             rsiValue == JsSub(Hundred, JsDiv(Hundred, JsAdd(FromInt(1), rs)))
         IN  RSILoop(gains, losses, period, i + 1, g, l, Append(rsi, rsiValue))

calculateRSI(p, period) ==
    IF Len(p) < period + 1 THEN <<>>
    ELSE LET gains == Gains(p)
             losses == Losses(p)
             avgGain == JsDiv(Sum(Slice(gains, 0, period)), FromInt(period))
             avgLoss == JsDiv(Sum(Slice(losses, 0, period)), FromInt(period))
         IN  RSILoop(gains, losses, period, period, avgGain, avgLoss, <<>>)

\* prices[0] of an empty array is undefined; arithmetic on it gives NaN
Undefined == NaN

RECURSIVE EMALoop(_, _, _, _)
EMALoop(p, multiplier, i, ema) ==
    IF i >= Len(p) THEN ema
    ELSE EMALoop(p, multiplier, i + 1,
                 Append(ema, JsAdd(JsMul(p[i + 1], multiplier),
                                   JsMul(ema[i], JsSub(FromInt(1), multiplier)))))

\* mutant: the smoothing factor is 1 / (period + 1)
calculateEMA_HalfMultiplier(p, period) ==
    LET multiplier == JsDiv(FromInt(1), FromInt(period + 1))
    IN  EMALoop(p, multiplier, 1, <<IF Len(p) = 0 THEN Undefined ELSE p[1]>>)

calculateEMA(p, period) ==
    LET multiplier == JsDiv(FromInt(2), FromInt(period + 1))
    IN  EMALoop(p, multiplier, 1, <<IF Len(p) = 0 THEN Undefined ELSE p[1]>>)

calculateMACD(p, fastPeriod, slowPeriod, signalPeriod) ==
    IF Len(p) < slowPeriod THEN [macd |-> <<>>, signal |-> <<>>, histogram |-> <<>>]
    ELSE LET emaFast == calculateEMA(p, fastPeriod)
             emaSlow == calculateEMA(p, slowPeriod)
             macd == [i \in 1..Len(emaFast) |-> JsSub(emaFast[i], emaSlow[i])]
             signal == calculateEMA(macd, signalPeriod)
             histogram == [i \in 1..Len(macd) |-> JsSub(macd[i], signal[i])]
         IN  [macd |-> macd, signal |-> signal, histogram |-> histogram]

\* mutant: the lower band is one standard deviation below the mean
BollingerAt_LowerUnscaled(p, period, stdDev, i) ==
    LET slice == Slice(p, i - period + 1, i + 1)
        mean == JsDiv(Sum(slice), FromInt(period))
        variance == JsDiv(SumSqDev(slice, mean, 1, Zero), FromInt(period))
        std == MathSqrt(variance)
        width == RootMul(std, FromRat(FromInt(stdDev)))
    IN  [sma |-> FromRat(mean),
         upper |-> RootAdd(FromRat(mean), width),
         lower |-> RootSub(FromRat(mean), std)]

\* one pass of the loop of calculateBollingerBands; i is the 0-based end index
BollingerAt(p, period, stdDev, i) ==
    LET slice == Slice(p, i - period + 1, i + 1)
        mean == JsDiv(Sum(slice), FromInt(period))
        variance == JsDiv(SumSqDev(slice, mean, 1, Zero), FromInt(period))
        std == MathSqrt(variance)
        width == RootMul(std, FromRat(FromInt(stdDev)))
    IN  [sma |-> FromRat(mean),
         upper |-> RootAdd(FromRat(mean), width),
         lower |-> RootSub(FromRat(mean), width)]

calculateBollingerBands(p, period, stdDev) ==
    IF Len(p) < period THEN [upper |-> <<>>, middle |-> <<>>, lower |-> <<>>]
    ELSE LET count == Len(p) - period + 1
             pass == [k \in 1..count |-> BollingerAt(p, period, stdDev, k + period - 2)]
         IN  [upper  |-> [k \in 1..count |-> pass[k].upper],
              middle |-> [k \in 1..count |-> pass[k].sma],
              lower  |-> [k \in 1..count |-> pass[k].lower]]

----------------------------------------------------------------------------
(* RiskAnalysis.js: Pearson correlation of simple returns *)

\* prices.slice(1).map((price, i) => (price - prices[i]) / prices[i])
SimpleReturns(p) ==
    [i \in 1..(Len(p) - 1) |-> JsDiv(JsSub(p[i + 1], p[i]), p[i])]

\* the loop of calculateCorrelation: <<numerator, sumSq1, sumSq2>>
RECURSIVE CorrelationLoop(_, _, _, _, _, _)
CorrelationLoop(returns1, returns2, mean1, mean2, i, acc) ==
    IF i > Len(returns1) THEN acc
    ELSE LET diff1 == JsSub(returns1[i], mean1)
             diff2 == JsSub(returns2[i], mean2)
         IN  CorrelationLoop(returns1, returns2, mean1, mean2, i + 1,
                             <<JsAdd(acc[1], JsMul(diff1, diff2)),
                               JsAdd(acc[2], JsMul(diff1, diff1)),
                               JsAdd(acc[3], JsMul(diff2, diff2))>>)

\* mutant: the denominator is sumSq1 * sumSq2, without the square root
calculateCorrelation_NoSqrt(prices1, prices2) ==
    IF Len(prices1) # Len(prices2) \/ Len(prices1) = 0 THEN FromRat(Zero)
    ELSE LET returns1 == SimpleReturns(prices1)
             returns2 == SimpleReturns(prices2)
             mean1 == JsDiv(Sum(returns1), FromInt(Len(returns1)))
             mean2 == JsDiv(Sum(returns2), FromInt(Len(returns2)))
             sums == CorrelationLoop(returns1, returns2, mean1, mean2, 1,
                                     <<Zero, Zero, Zero>>)
             denominator == JsMul(sums[2], sums[3])
         IN  IF denominator = Zero THEN FromRat(Zero)
             ELSE FromRat(JsDiv(sums[1], denominator))

calculateCorrelation(prices1, prices2) ==
    IF Len(prices1) # Len(prices2) \/ Len(prices1) = 0 THEN FromRat(Zero)
    ELSE LET returns1 == SimpleReturns(prices1)
             returns2 == SimpleReturns(prices2)
             mean1 == JsDiv(Sum(returns1), FromInt(Len(returns1)))
             mean2 == JsDiv(Sum(returns2), FromInt(Len(returns2)))
             sums == CorrelationLoop(returns1, returns2, mean1, mean2, 1,
                                     <<Zero, Zero, Zero>>)
             denominator == MathSqrt(JsMul(sums[2], sums[3]))
         IN  IF denominator = FromRat(Zero) THEN FromRat(Zero)
             ELSE RootDiv(FromRat(sums[1]), denominator)

\* priceData is the object in key order, a sequence of [symbol, prices] entries
calculateCorrelationMatrix(data) ==
    LET n == Len(data)
    IN  [matrix |-> [i \in 1..n |-> [j \in 1..n |->
                        IF i = j THEN FromRat(FromInt(1))
                        ELSE calculateCorrelation(data[i].prices, data[j].prices)]],
         symbols |-> [i \in 1..n |-> data[i].symbol]]

----------------------------------------------------------------------------
(* Inputs *)

RECURSIVE SeqsUpTo(_, _)
SeqsUpTo(S, n) ==
    IF n <= 0 THEN {<<>>}
    ELSE LET shorter == SeqsUpTo(S, n - 1)
         IN  shorter \cup {Append(s, x) : s \in {t \in shorter : Len(t) = n - 1}, x \in S}

\* returns in steps of a tenth
ReturnValues == {Num(k, 10) : k \in (-MaxRet)..MaxRet}

ReturnArrays == SeqsUpTo(ReturnValues, MaxRetLen)

PriceValues == {FromInt(k) : k \in 1..MaxPrice}

PriceArrays == SeqsUpTo(PriceValues, MaxPriceLen)

\* the series of the correlation inputs
CorrPriceArrays == SeqsUpTo({FromInt(1), FromInt(2)}, MaxCorrLen)

\* useState(['AAPL', 'GOOGL', 'MSFT'])
Symbols == <<"AAPL", "GOOGL", "MSFT">>

Entry(i, p) == [symbol |-> Symbols[i], prices |-> p]

\* one, two or three symbols; two series of equal length or the second one
\* shorter, three series of equal length
PriceDataSets ==
    {<<>>}
    \cup {<<Entry(1, a)>> : a \in CorrPriceArrays}
    \cup UNION {{<<Entry(1, a), Entry(2, b)>> :
                    b \in {x \in CorrPriceArrays : Len(x) \in {Len(a), Len(a) - 1}}} :
                a \in CorrPriceArrays}
    \cup UNION {{<<Entry(1, a), Entry(2, b), Entry(3, c)>> :
                    b \in {x \in CorrPriceArrays : Len(x) = Len(a)},
                    c \in {x \in CorrPriceArrays : Len(x) = Len(a)}} :
                a \in {x \in CorrPriceArrays : Len(x) <= 3}}

\* 0.05 and 0.01 as called by fetchRiskAnalysis, 0, and deeper tails
Confidences == {Zero, Num(1, 100), Num(1, 20), Num(1, 2), Num(3, 4)}

\* the default riskFreeRate = 0.02, and none
RiskFreeRates == {Zero, Num(1, 50)}

\* the default period = 14, and periods the bounded series can fill
RSIPeriods == {1, 2, 14}

EMAPeriods == {1, 2, 3}

\* <<fastPeriod, slowPeriod, signalPeriod>>, the defaults among them
MACDPeriods == {<<1, 2, 2>>, <<2, 3, 2>>, <<2, 4, 3>>, <<3, 2, 1>>, <<12, 26, 9>>}

\* <<period, stdDev>>, the defaults among them
BollingerParams == {<<1, 2>>, <<2, 2>>, <<3, 1>>, <<3, 2>>, <<2, 0>>, <<20, 2>>}

NoCall == [fn |-> "none"]

----------------------------------------------------------------------------
(* Text: a JavaScript string is the sequence of its characters, each a      *)
(* one-character string; the letters are those of the ticker symbols and    *)
(* of the paths the front end uses.                                          *)

LowerCase == <<"a", "b", "c", "d", "e", "f", "g", "h", "i", "j", "k", "l", "m",
               "n", "o", "p", "q", "r", "s", "t", "u", "v", "w", "x", "y", "z">>

UpperCase == <<"A", "B", "C", "D", "E", "F", "G", "H", "I", "J", "K", "L", "M",
               "N", "O", "P", "Q", "R", "S", "T", "U", "V", "W", "X", "Y", "Z">>

IndexIn(alphabet, ch) ==
    IF \E i \in DOMAIN alphabet : alphabet[i] = ch
    THEN CHOOSE i \in DOMAIN alphabet : alphabet[i] = ch
    ELSE 0

\* String.prototype.toUpperCase
toUpperCase(str) ==
    [i \in DOMAIN str |->
        IF IndexIn(LowerCase, str[i]) > 0
        THEN UpperCase[IndexIn(LowerCase, str[i])] ELSE str[i]]

\* String.prototype.toLowerCase
toLowerCase(str) ==
    [i \in DOMAIN str |->
        IF IndexIn(UpperCase, str[i]) > 0
        THEN LowerCase[IndexIn(UpperCase, str[i])] ELSE str[i]]

IsWhiteSpace(ch) == ch = " "

\* String.prototype.trim
RECURSIVE trim(_)
trim(str) ==
    IF str = <<>> THEN str
    ELSE IF IsWhiteSpace(Head(str)) THEN trim(Tail(str))
    ELSE IF IsWhiteSpace(str[Len(str)]) THEN trim(SubSeq(str, 1, Len(str) - 1))
    ELSE str

\* String.prototype.split(separator): the pieces between the separators, so
\* ''.split(',') is [''] and 'A,'.split(',') is ['A', '']
RECURSIVE SplitFrom(_, _, _, _, _)
SplitFrom(str, separator, i, piece, pieces) ==
    IF i > Len(str) THEN Append(pieces, piece)
    ELSE IF str[i] = separator
         THEN SplitFrom(str, separator, i + 1, <<>>, Append(pieces, piece))
         ELSE SplitFrom(str, separator, i + 1, Append(piece, str[i]), pieces)

split(str, separator) == SplitFrom(str, separator, 1, <<>>, <<>>)

\* Array.prototype.filter(s => s): the non-empty strings, in order
RECURSIVE FilterNonEmpty(_)
FilterNonEmpty(list) ==
    IF list = <<>> THEN <<>>
    ELSE IF Head(list) = <<>> THEN FilterNonEmpty(Tail(list))
    ELSE <<Head(list)>> \o FilterNonEmpty(Tail(list))

\* value.split(',').map(s => s.trim().toUpperCase()).filter(s => s)
symbolList(value) ==
    LET pieces == split(value, ",")
    IN  FilterNonEmpty([i \in DOMAIN pieces |-> toUpperCase(trim(pieces[i]))])

\* Array.prototype.join(separator)
RECURSIVE join(_, _)
join(list, separator) ==
    IF list = <<>> THEN <<>>
    ELSE IF Len(list) = 1 THEN list[1]
    ELSE list[1] \o <<separator>> \o join(Tail(list), separator)

AAPL == <<"A", "A", "P", "L">>
GOOGL == <<"G", "O", "O", "G", "L">>
MSFT == <<"M", "S", "F", "T">>
AMZN == <<"A", "M", "Z", "N">>
TSLA == <<"T", "S", "L", "A">>

----------------------------------------------------------------------------
(* RiskAnalysis and TechnicalAnalysis: the component state after mount *)

\* null, and an object that is not there (undefined)
Null == [null |-> TRUE]

NoMessage == [type |-> "none"]

MessageError(content) == [type |-> "error", content |-> content]

Idle == [pc |-> "idle"]

\* the useState initial values of both pages
AnalysisMounted ==
    /\ symbols = <<AAPL, GOOGL, MSFT>>
    /\ symbol = AAPL
    /\ selectedPeriod = "1y"
    /\ loading = FALSE
    /\ riskMetrics = Null
    /\ correlationMatrix = Null
    /\ marketData = Null
    /\ indicators = Null
    /\ message = NoMessage
    /\ run = Idle

----------------------------------------------------------------------------
(* Header: objects, JSON text and the state after mount.  A JavaScript      *)
(* value carries its type; an object is a function from its keys to values; *)
(* JSON text is the sequence of its members, each a key and a literal.      *)

Str(s) == [string |-> s]

Bool(b) == [boolean |-> b]

Number(n) == [number |-> n]

JsUndefined == [undefined |-> TRUE]

\* the useState initial value of userProfile
DefaultProfile ==
    [name |-> Str("John Doe"),
     email |-> Str("john.doe@fingpt.com"),
     role |-> Str("Financial Analyst"),
     department |-> Str("Quantitative Research"),
     joinDate |-> Str("2024-01-15")]

\* the useState initial value of userSettings
DefaultSettings ==
    [theme |-> Str("light"),
     notifications |-> Bool(TRUE),
     autoRefresh |-> Bool(TRUE),
     refreshInterval |-> Number(30),
     defaultPeriod |-> Str("1y"),
     riskTolerance |-> Str("moderate")]

\* the keys of the two objects in insertion order
ProfileKeys == <<"name", "email", "role", "department", "joinDate">>

SettingsKeys == <<"theme", "notifications", "autoRefresh", "refreshInterval",
                  "defaultPeriod", "riskTolerance">>

\* the literal JSON.stringify writes for a value
Literal(value) ==
    IF DOMAIN value = {"string"} THEN [quoted |-> value.string]
    ELSE IF DOMAIN value = {"boolean"}
         THEN [word |-> IF value.boolean THEN "true" ELSE "false"]
    ELSE [digits |-> value.number]

\* the value JSON.parse reads from a literal
ValueOf(literal) ==
    IF DOMAIN literal = {"quoted"} THEN Str(literal.quoted)
    ELSE IF DOMAIN literal = {"word"} THEN Bool(literal.word = "true")
    ELSE Number(literal.digits)

\* JSON.stringify(object): the members in key order, without the keys whose
\* value is undefined
RECURSIVE StringifyFrom(_, _, _)
StringifyFrom(object, keys, i) ==
    IF i > Len(keys) THEN <<>>
    ELSE IF keys[i] \notin DOMAIN object \/ object[keys[i]] = JsUndefined
         THEN StringifyFrom(object, keys, i + 1)
         ELSE <<[key |-> keys[i], literal |-> Literal(object[keys[i]])]>>
              \o StringifyFrom(object, keys, i + 1)

JSONstringify(object, keys) == [text |-> StringifyFrom(object, keys, 1)]

\* JSON.parse(text)
JSONparse(json) ==
    LET members == json.text
        keys == {members[i].key : i \in DOMAIN members}
    IN  [k \in keys |->
            ValueOf(members[CHOOSE i \in DOMAIN members : members[i].key = k].literal)]

\* { ...object, ...values }
Spread(object, values) ==
    [k \in DOMAIN object \cup DOMAIN values |->
        IF k \in DOMAIN values THEN values[k] ELSE object[k]]

\* localStorage without the two keys
EmptyStorage == [userProfile |-> Null, userSettings |-> Null]

\* the load effect: the saved object when the key is there, the initial state
\* otherwise
LoadedProfile(storage) ==
    IF storage.userProfile # Null THEN JSONparse(storage.userProfile)
    ELSE DefaultProfile

LoadedSettings(storage) ==
    IF storage.userSettings # Null THEN JSONparse(storage.userSettings)
    ELSE DefaultSettings

\* a Form no field of which has been set
NoFields == [untouched |-> TRUE]

\* the Header right after mount over a localStorage: the useState initial
\* values, the load effect, and the first checkApiStatus() in flight
HeaderMounted(storage) ==
    /\ mounted = TRUE
    /\ apiStatus = "checking"
    /\ notifications = <<>>
    /\ checks = <<"pending">>
    /\ clearedAll = FALSE
    /\ profileModalVisible = FALSE
    /\ settingsModalVisible = FALSE
    /\ userProfile = LoadedProfile(storage)
    /\ userSettings = LoadedSettings(storage)
    /\ profileForm = NoFields
    /\ settingsForm = NoFields
    /\ localStorage = storage
    /\ confirmOpen = FALSE
    /\ reloadTimer = FALSE

----------------------------------------------------------------------------
(* App.js: the routes, and how the Routes element of the router matches a   *)
(* location against them: a route path matches a pathname that equals it    *)
(* up to letter case and trailing slashes, '*' matches every pathname, and  *)
(* the match with the highest score is rendered.                             *)

Slash == <<"/">>

Star == <<"*">>

PathMarket == Slash \o <<"m", "a", "r", "k", "e", "t">>
PathPortfolio == Slash \o <<"p", "o", "r", "t", "f", "o", "l", "i", "o">>
PathSentiment == Slash \o <<"s", "e", "n", "t", "i", "m", "e", "n", "t">>
PathTechnical == Slash \o <<"t", "e", "c", "h", "n", "i", "c", "a", "l">>
PathRisk == Slash \o <<"r", "i", "s", "k">>
PathBacktesting == Slash \o <<"b", "a", "c", "k", "t", "e", "s", "t", "i", "n", "g">>
PathAbout == Slash \o <<"a", "b", "o", "u", "t">>

\* <Route path=... element=... />, in the order of App.js
AppRoutes ==
    <<[path |-> Slash, element |-> "Dashboard"],
      [path |-> PathMarket, element |-> "MarketAnalysis"],
      [path |-> PathPortfolio, element |-> "PortfolioOptimizer"],
      [path |-> PathSentiment, element |-> "SentimentAnalysis"],
      [path |-> PathTechnical, element |-> "TechnicalAnalysis"],
      [path |-> PathRisk, element |-> "RiskAnalysis"],
      [path |-> PathBacktesting, element |-> "Backtesting"],
      [path |-> PathAbout, element |-> "About"],
      [path |-> Star, element |-> "Dashboard"]>>

\* the keys of the Sidebar's menuItems
MenuKeys == <<Slash, PathMarket, PathPortfolio, PathSentiment, PathBacktesting,
              PathAbout>>

\* a path without its trailing slashes
RECURSIVE StripTrailingSlashes(_)
StripTrailingSlashes(path) ==
    IF path # <<>> /\ path[Len(path)] = "/"
    THEN StripTrailingSlashes(SubSeq(path, 1, Len(path) - 1))
    ELSE path

\* mutant: the match tells upper case from lower case
MatchPath_CaseSensitive(path, pathname) ==
    /\ pathname # <<>>
    /\ pathname[1] = "/"
    /\ \/ path = Star
       \/ StripTrailingSlashes(pathname) = StripTrailingSlashes(path)

\* the route path matches the whole pathname
MatchPath(path, pathname) ==
    /\ pathname # <<>>
    /\ pathname[1] = "/"
    /\ \/ path = Star
       \/ toLowerCase(StripTrailingSlashes(pathname))
            = toLowerCase(StripTrailingSlashes(path))

\* the score of a route path: its segments, 10 for a static one, 1 for an
\* empty one, and a penalty of 2 for a splat
RECURSIVE SegmentScore(_, _)
SegmentScore(segments, i) ==
    IF i > Len(segments) THEN 0
    ELSE (IF segments[i] = Star THEN 0 ELSE IF segments[i] = <<>> THEN 1 ELSE 10)
         + SegmentScore(segments, i + 1)

ComputeScore(path) ==
    LET segments == split(path, "/")
    IN  Len(segments) + SegmentScore(segments, 1)
        - (IF \E i \in DOMAIN segments : segments[i] = Star THEN 2 ELSE 0)

\* the matching routes of the highest score, the earliest first
MatchRoutes(routes, pathname) ==
    LET matching == {i \in DOMAIN routes : MatchPath(routes[i].path, pathname)}
        best == {i \in matching :
                    \A j \in matching :
                        ComputeScore(routes[j].path) <= ComputeScore(routes[i].path)}
    IN  {i \in best : \A j \in best : i <= j}

\* the element the Routes render at a pathname
Rendered(routes, pathname) ==
    LET matches == MatchRoutes(routes, pathname)
    IN  IF matches = {} THEN "nothing" ELSE routes[CHOOSE i \in matches : TRUE].element

\* the path a page is registered under
PathOf(element) ==
    AppRoutes[CHOOSE i \in DOMAIN AppRoutes :
                AppRoutes[i].element = element /\ AppRoutes[i].path # Star
                    /\ (element = "Dashboard" => AppRoutes[i].path = Slash)].path

----------------------------------------------------------------------------
(* PortfolioOptimizer.js: the component state *)

OptimizerSymbols == <<AAPL, GOOGL, MSFT, AMZN, TSLA>>

Digits == <<"0", "1", "2", "3", "4", "5", "6", "7", "8", "9">>

IsDigit(ch) == IndexIn(Digits, ch) > 0

\* the number of digits of str from position i on
RECURSIVE DigitRun(_, _)
DigitRun(str, i) ==
    IF i <= Len(str) /\ IsDigit(str[i]) THEN 1 + DigitRun(str, i + 1) ELSE 0

\* the decimal value of the k digits of str from position i on
RECURSIVE DigitsValue(_, _, _)
DigitsValue(str, i, k) ==
    IF k = 0 THEN 0
    ELSE 10 * DigitsValue(str, i, k - 1) + (IndexIn(Digits, str[i + k - 1]) - 1)

RECURSIVE Pow10(_)
Pow10(k) == IF k = 0 THEN 1 ELSE 10 * Pow10(k - 1)

\* parseFloat: the longest decimal literal after the leading white space,
\* NaN when there is none (exponents and Infinity are not among the texts)
RECURSIVE parseFloat(_)
parseFloat(str) ==
    IF str # <<>> /\ IsWhiteSpace(Head(str)) THEN parseFloat(Tail(str))
    ELSE LET signed == str # <<>> /\ Head(str) \in {"-", "+"}
             start == IF signed THEN 2 ELSE 1
             whole == DigitRun(str, start)
             dot == start + whole
             frac == IF dot <= Len(str) /\ str[dot] = "."
                     THEN DigitRun(str, dot + 1) ELSE 0
             magnitude ==
                 Num(DigitsValue(str, start, whole) * Pow10(frac)
                        + DigitsValue(str, dot + 1, frac), Pow10(frac))
         IN  IF whole + frac = 0 THEN NaN
             ELSE IF signed /\ Head(str) = "-" THEN JsNeg(magnitude)
             ELSE magnitude

\* a || b on numbers: NaN and 0 are falsy
OrElse(a, b) == IF IsNaN(a) \/ a = Zero \/ a = JsNeg(Zero) THEN b ELSE a

\* the rate the risk-free rate Input sets for a text
RateOf(text) == OrElse(parseFloat(text), Num(1, 50))

\* the texts typed into the risk-free rate Input
RateTexts == {<<"0", ".", "0", "5">>, <<>>, <<"0">>, <<" ", "0", ".", "0", "5", "%">>}

Methods == {"max_sharpe", "min_variance", "risk_parity"}

\* the query keys ['portfolioOptimization', symbols, method, riskFreeRate]
\* the page can reach
QueryKeys ==
    {[symbols |-> OptimizerSymbols, method |-> m, riskFreeRate |-> r] :
        m \in Methods, r \in {RateOf(text) : text \in RateTexts} \cup {Num(1, 50)}}

\* the useState initial values next to symbols, no query running and no
\* query result cached
OptimizerState ==
    /\ inputValue = join(OptimizerSymbols, ",")
    /\ method = "max_sharpe"
    /\ riskFreeRateState = Num(1, 50)
    /\ isFetching = FALSE
    /\ optimizationData = [key \in QueryKeys |-> Null]
    /\ sent = Null

----------------------------------------------------------------------------
(* Backtesting.js and SentimentAnalysis: the component state.  Each page    *)
(* query is kept with the request it last sent and the result it last       *)
(* received, with the request that result answers.                          *)

\* 'The market is showing strong bullish momentum'
BullishText ==
    <<"T", "h", "e", " ", "m", "a", "r", "k", "e", "t", " ", "i", "s", " ",
      "s", "h", "o", "w", "i", "n", "g", " ", "s", "t", "r", "o", "n", "g",
      " ", "b", "u", "l", "l", "i", "s", "h", " ", "m", "o", "m", "e", "n",
      "t", "u", "m">>

\* 'Investors are concerned about the economic outlook'
ConcernedText ==
    <<"I", "n", "v", "e", "s", "t", "o", "r", "s", " ", "a", "r", "e", " ",
      "c", "o", "n", "c", "e", "r", "n", "e", "d", " ", "a", "b", "o", "u",
      "t", " ", "t", "h", "e", " ", "e", "c", "o", "n", "o", "m", "i", "c",
      " ", "o", "u", "t", "l", "o", "o", "k">>

\* 'Company earnings beat expectations significantly'
EarningsText ==
    <<"C", "o", "m", "p", "a", "n", "y", " ", "e", "a", "r", "n", "i", "n",
      "g", "s", " ", "b", "e", "a", "t", " ", "e", "x", "p", "e", "c", "t",
      "a", "t", "i", "o", "n", "s", " ", "s", "i", "g", "n", "i", "f", "i",
      "c", "a", "n", "t", "l", "y">>

\* 'Stock prices remain volatile amid uncertainty'
VolatileText ==
    <<"S", "t", "o", "c", "k", " ", "p", "r", "i", "c", "e", "s", " ", "r",
      "e", "m", "a", "i", "n", " ", "v", "o", "l", "a", "t", "i", "l", "e",
      " ", "a", "m", "i", "d", " ", "u", "n", "c", "e", "r", "t", "a", "i",
      "n", "t", "y">>

BatchDefaults == <<BullishText, ConcernedText, EarningsText, VolatileText>>

QueryNames == {"backtest", "sentimentAnalysis", "batchSentimentAnalysis"}

QueryIdle == [isFetching |-> FALSE, failureCount |-> 0, sent |-> Null, received |-> Null]

\* the useState initial values of both pages, no query has run
FormsMounted ==
    /\ strategy = "moving_average"
    /\ startDate = "2023-01-01"
    /\ endDate = "2023-12-31"
    /\ initialCash = FromInt(100000)
    /\ sentimentText
        = "Apple's quarterly earnings exceeded expectations with strong iPhone sales"
    /\ batchTexts = BatchDefaults
    /\ queries = [name \in QueryNames |-> QueryIdle]

----------------------------------------------------------------------------
(* The state machine: Init draws the input arrays, each action is one call  *)
(* of a routine on them.  given keeps the arrays as they were drawn.        *)

InitReturns ==
    /\ page = "RiskAnalysis"
    /\ returns \in ReturnArrays
    /\ prices = <<>>
    /\ priceData = <<>>

InitPrices ==
    /\ page \in {"RiskAnalysis", "TechnicalAnalysis"}
    /\ returns = <<>>
    /\ prices \in PriceArrays
    /\ priceData = <<>>

InitPriceData ==
    /\ page = "RiskAnalysis"
    /\ returns = <<>>
    /\ prices = <<>>
    /\ priceData \in PriceDataSets

Init ==
    /\ InitReturns \/ InitPrices \/ InitPriceData
    /\ given = [returns |-> returns, prices |-> prices, priceData |-> priceData]
    /\ last = NoCall
    /\ AnalysisMounted
    /\ OptimizerState
    /\ FormsMounted
    /\ history = <<PathOf(page)>>
    /\ HeaderMounted(EmptyStorage)

\* mutant: returns.sort(...) sorts the caller's array in place
CallVaR_InPlace ==
    /\ page = "RiskAnalysis"
    /\ \E c \in Confidences :
        /\ last' = [fn |-> "calculateVaR", confidence |-> c,
                    result |-> calculateVaR(returns, c)]
        /\ returns' = SortAsc(returns)
        /\ UNCHANGED <<page, prices, priceData, given, shellVars>>

\* the routines read their arguments and write nothing: VaR and CVaR sort a copy
CallVaR ==
    /\ page = "RiskAnalysis"
    /\ \E c \in Confidences :
        /\ last' = [fn |-> "calculateVaR", confidence |-> c,
                    result |-> calculateVaR(returns, c)]
        /\ UNCHANGED <<page, returns, prices, priceData, given, shellVars>>

CallCVaR ==
    /\ page = "RiskAnalysis"
    /\ \E c \in Confidences :
        /\ last' = [fn |-> "calculateCVaR", confidence |-> c,
                    result |-> calculateCVaR(returns, c)]
        /\ UNCHANGED <<page, returns, prices, priceData, given, shellVars>>

CallMaxDrawdown ==
    /\ page = "RiskAnalysis"
    /\ last' = [fn |-> "calculateMaxDrawdown", result |-> calculateMaxDrawdown(prices)]
    /\ UNCHANGED <<page, returns, prices, priceData, given, shellVars>>

CallSharpeRatio ==
    /\ page = "RiskAnalysis"
    /\ \E rf \in RiskFreeRates :
        /\ last' = [fn |-> "calculateSharpeRatio", riskFreeRate |-> rf,
                    result |-> calculateSharpeRatio(returns, rf)]
        /\ UNCHANGED <<page, returns, prices, priceData, given, shellVars>>

CallCorrelationMatrix ==
    /\ page = "RiskAnalysis"
    /\ last' = [fn |-> "calculateCorrelationMatrix",
                result |-> calculateCorrelationMatrix(priceData)]
    /\ UNCHANGED <<page, returns, prices, priceData, given, shellVars>>

CallCorrelation ==
    /\ page = "RiskAnalysis"
    /\ \E i \in 1..Len(priceData), j \in 1..Len(priceData) :
        /\ last' = [fn |-> "calculateCorrelation", i |-> i, j |-> j,
                    result |-> calculateCorrelation(priceData[i].prices,
                                                    priceData[j].prices)]
        /\ UNCHANGED <<page, returns, prices, priceData, given, shellVars>>

\* fetchRiskAnalysis, the four tail metrics of one symbol's returns
ComputeRiskMetrics ==
    /\ page = "RiskAnalysis"
    /\ last' = [fn |-> "riskMetrics",
                var95 |-> calculateVaR(returns, Num(1, 20)),
                var99 |-> calculateVaR(returns, Num(1, 100)),
                cvar95 |-> calculateCVaR(returns, Num(1, 20)),
                cvar99 |-> calculateCVaR(returns, Num(1, 100))]
    /\ UNCHANGED <<page, returns, prices, priceData, given, shellVars>>

CallRSI ==
    /\ page = "TechnicalAnalysis"
    /\ \E period \in RSIPeriods :
        /\ last' = [fn |-> "calculateRSI", period |-> period,
                    result |-> calculateRSI(prices, period)]
        /\ UNCHANGED <<page, returns, prices, priceData, given, shellVars>>

CallEMA ==
    /\ page = "TechnicalAnalysis"
    /\ \E period \in EMAPeriods :
        /\ last' = [fn |-> "calculateEMA", period |-> period,
                    result |-> calculateEMA(prices, period)]
        /\ UNCHANGED <<page, returns, prices, priceData, given, shellVars>>

CallMACD ==
    /\ page = "TechnicalAnalysis"
    /\ \E per \in MACDPeriods :
        /\ last' = [fn |-> "calculateMACD", fastPeriod |-> per[1],
                    slowPeriod |-> per[2], signalPeriod |-> per[3],
                    result |-> calculateMACD(prices, per[1], per[2], per[3])]
        /\ UNCHANGED <<page, returns, prices, priceData, given, shellVars>>

CallBollingerBands ==
    /\ page = "TechnicalAnalysis"
    /\ \E par \in BollingerParams :
        /\ last' = [fn |-> "calculateBollingerBands", period |-> par[1], stdDev |-> par[2],
                    result |-> calculateBollingerBands(prices, par[1], par[2])]
        /\ UNCHANGED <<page, returns, prices, priceData, given, shellVars>>

Call ==
    \/ CallVaR
    \/ CallCVaR
    \/ CallMaxDrawdown
    \/ CallSharpeRatio
    \/ CallCorrelationMatrix
    \/ CallCorrelation
    \/ ComputeRiskMetrics
    \/ CallRSI
    \/ CallEMA
    \/ CallMACD
    \/ CallBollingerBands

\* one call of one routine on the drawn inputs
Next ==
    \/ last = NoCall /\ CallVaR
    \/ last = NoCall /\ CallCVaR
    \/ last = NoCall /\ CallMaxDrawdown
    \/ last = NoCall /\ CallSharpeRatio
    \/ last = NoCall /\ CallCorrelationMatrix
    \/ last = NoCall /\ CallCorrelation
    \/ last = NoCall /\ ComputeRiskMetrics
    \/ last = NoCall /\ CallRSI
    \/ last = NoCall /\ CallEMA
    \/ last = NoCall /\ CallMACD
    \/ last = NoCall /\ CallBollingerBands

Spec == Init /\ [][Next]_vars

\* calls in any order, any number of times, on short inputs
InitAnyOrder ==
    /\ Init
    /\ Len(returns) <= 2
    /\ Len(prices) <= 3
    /\ Len(priceData) <= 2
    /\ \A i \in 1..Len(priceData) : Len(priceData[i].prices) <= 2

SpecAnyOrder == InitAnyOrder /\ [][Call]_vars

----------------------------------------------------------------------------
(* POST /api/market-data as the pages see it: fetch rejects or resolves,    *)
(* response.json() rejects or resolves with the result                       *)

\* the periods of the Select the runs are tried with
Periods == {"1mo", "1y"}

\* the symbols the server has prices for
KnownSymbols == {AAPL, GOOGL, MSFT}

\* two days' worth of closing prices of a symbol
Closes(sym, day) ==
    LET c == IF sym = AAPL THEN <<1, 2, 1, 3>>
             ELSE IF sym = GOOGL THEN <<2, 1, 3, 3>>
             ELSE <<3, 2, 2, 1>>
    IN  [i \in 1..3 |-> FromInt(c[i + day - 1])]

Dates(day) == [i \in 1..3 |-> <<"2024-01-0", i + day - 1>>]

\* symbolData.historical_data: rows of date and close, or undefined
HistoricalData(sym, day) ==
    [present |-> TRUE,
     rows |-> [i \in 1..3 |-> [date |-> Dates(day)[i], close |-> Closes(sym, day)[i]]]]

NoHistoricalData == [present |-> FALSE, rows |-> <<>>]

\* result.data.data for a request: an entry per requested symbol the server
\* knows, in request order, each with or without historical_data
RECURSIVE DataFor(_, _)
DataFor(requested, day) ==
    IF requested = <<>> THEN {<<>>}
    ELSE LET rest == DataFor(Tail(requested), day)
             sym == Head(requested)
         IN  IF sym \notin KnownSymbols THEN rest
             ELSE {<<[symbol |-> sym, historical_data |-> h]>> \o d :
                     h \in {NoHistoricalData, HistoricalData(sym, day)}, d \in rest}

\* the bodies response.json() can resolve with
Results(body) ==
    {[success |-> FALSE, data |-> Null], [success |-> TRUE, data |-> Null]}
    \cup {[success |-> TRUE, data |-> [data |-> d]] :
            d \in DataFor(body.symbols, 1) \cup DataFor(body.symbols, 2)}

\* result.success && result.data && result.data.data
HasData(result) == result.success /\ result.data # Null

\* data[symbol]
Lookup(data, sym) ==
    IF \E i \in DOMAIN data : data[i].symbol = sym
    THEN data[CHOOSE i \in DOMAIN data : data[i].symbol = sym]
    ELSE [symbol |-> sym, historical_data |-> NoHistoricalData]

----------------------------------------------------------------------------
(* RiskAnalysis.js: fetchRiskAnalysis *)

\* symbolData.historical_data.map(d => d.close)
ClosePrices(rows) == [i \in DOMAIN rows |-> rows[i].close]

\* the riskMetricsData entry of one symbol; sqrt(v) * sqrt(252) is taken as
\* sqrt(v * 252)
RiskMetricsOf(sym, p) ==
    LET rets == SimpleReturns(p)
        avg == JsDiv(Sum(rets), FromInt(Len(rets)))
    IN  [symbol |-> sym,
         var95 |-> calculateVaR(rets, Num(1, 20)),
         var99 |-> calculateVaR(rets, Num(1, 100)),
         cvar95 |-> calculateCVaR(rets, Num(1, 20)),
         cvar99 |-> calculateCVaR(rets, Num(1, 100)),
         maxDrawdown |-> calculateMaxDrawdown(p),
         sharpeRatio |-> calculateSharpeRatio(rets, Num(1, 50)),
         volatility |-> MathSqrt(JsMul(JsDiv(SumSqDev(rets, avg, 1, Zero),
                                             FromInt(Len(rets))),
                                       FromInt(TradingDays))),
         avgReturn |-> JsMul(avg, FromInt(TradingDays))]

\* Object.keys(data).forEach: the symbols with historical_data, in key order
RECURSIVE WithHistory(_)
WithHistory(data) ==
    IF data = <<>> THEN <<>>
    ELSE IF Head(data).historical_data.present
         THEN <<Head(data)>> \o WithHistory(Tail(data))
         ELSE WithHistory(Tail(data))

riskMetricsData(data) ==
    LET kept == WithHistory(data)
    IN  [i \in DOMAIN kept |->
            RiskMetricsOf(kept[i].symbol, ClosePrices(kept[i].historical_data.rows))]

priceDataOf(data) ==
    LET kept == WithHistory(data)
    IN  [i \in DOMAIN kept |->
            [symbol |-> kept[i].symbol,
             prices |-> ClosePrices(kept[i].historical_data.rows)]]

\* the texts typed into the symbols Input
RiskTexts ==
    {<<>>, <<" ">>, AAPL, join(<<AAPL, GOOGL>>, ","),
     <<"m", "s", "f", "t", ",", " ", "a", "a", "p", "l", ",">>}

\* the symbol lists a request can carry
RequestLists == {<<AAPL, GOOGL, MSFT>>} \cup {symbolList(value) : value \in RiskTexts}

\* the data objects the server can answer them with
ServerData == UNION {DataFor(list, day) : list \in RequestLists, day \in 1..2}

\* what the try block computes from a data object: riskMetricsData, priceData
\* and, for more than one symbol, the correlation matrix
Processed ==
    [data \in ServerData |->
        [riskMetricsData |-> riskMetricsData(data),
         priceData |-> priceDataOf(data),
         correlation |-> IF Len(priceDataOf(data)) > 1
                         THEN calculateCorrelationMatrix(priceDataOf(data))
                         ELSE Null]]

\* the Input's onChange
RiskSymbolsChange ==
    /\ page = "RiskAnalysis"
    /\ \E value \in RiskTexts : symbols' = symbolList(value)
    /\ message' = NoMessage
    /\ UNCHANGED <<headerVars, optimizerVars, routineVars, symbol, selectedPeriod, loading, riskMetrics,
                   correlationMatrix, marketData, indicators, run, formVars>>

\* the Select's onChange, on either page
SetPeriod ==
    /\ \E value \in Periods : selectedPeriod' = value
    /\ message' = NoMessage
    /\ UNCHANGED <<headerVars, optimizerVars, routineVars, symbols, symbol, loading, riskMetrics,
                   correlationMatrix, marketData, indicators, run, formVars>>

\* a click on Analyze Risk, up to the await of fetch; the Button takes no
\* click while loading
fetchRiskAnalysis ==
    /\ page = "RiskAnalysis"
    /\ ~loading
    /\ IF Len(symbols) = 0
       THEN /\ message' = MessageError("Please enter at least one symbol")
            /\ last' = [fn |-> "fetchRiskAnalysis", outcome |-> "no symbols"]
            /\ UNCHANGED <<loading, run>>
       ELSE /\ loading' = TRUE
            /\ run' = [pc |-> "fetch",
                       body |-> [symbols |-> symbols, period |-> selectedPeriod]]
            /\ message' = NoMessage
            /\ last' = [fn |-> "fetchRiskAnalysis", outcome |-> "sent"]
    /\ UNCHANGED <<headerVars, optimizerVars, page, history, returns, prices, priceData, given, symbols, symbol,
                   selectedPeriod, riskMetrics, correlationMatrix, marketData,
                   indicators, formVars>>

\* fetch resolves: the run awaits response.json()
RiskFetchResolves ==
    /\ page = "RiskAnalysis"
    /\ run.pc = "fetch"
    /\ run' = [run EXCEPT !.pc = "json"]
    /\ UNCHANGED <<headerVars, optimizerVars, routineVars, symbols, symbol, selectedPeriod, loading,
                   riskMetrics, correlationMatrix, marketData, indicators, message, formVars>>

\* mutant: the catch block without the finally block
RiskRunThrows_NoFinally ==
    /\ page = "RiskAnalysis"
    /\ run.pc \in {"fetch", "json"}
    /\ message' = MessageError("Error fetching risk analysis data")
    /\ run' = Idle
    /\ last' = [fn |-> "fetchRiskAnalysis", outcome |-> "threw"]
    /\ UNCHANGED <<headerVars, optimizerVars, page, history, returns, prices, priceData, given, symbols, symbol,
                   selectedPeriod, loading, riskMetrics, correlationMatrix,
                   marketData, indicators, formVars>>

\* fetch or response.json() rejects: catch, then finally
RiskRunThrows ==
    /\ page = "RiskAnalysis"
    /\ run.pc \in {"fetch", "json"}
    /\ message' = MessageError("Error fetching risk analysis data")
    /\ loading' = FALSE
    /\ run' = Idle
    /\ last' = [fn |-> "fetchRiskAnalysis", outcome |-> "threw"]
    /\ UNCHANGED <<headerVars, optimizerVars, page, history, returns, prices, priceData, given, symbols, symbol,
                   selectedPeriod, riskMetrics, correlationMatrix, marketData,
                   indicators, formVars>>

\* response.json() resolves: the rest of the try block, then finally
RiskJsonResolves ==
    /\ page = "RiskAnalysis"
    /\ run.pc = "json"
    /\ \E result \in Results(run.body) :
        IF HasData(result)
        THEN LET data == result.data.data
             IN  /\ riskMetrics' = [entries |-> Processed[data].riskMetricsData]
                 /\ correlationMatrix' =
                        IF Len(Processed[data].priceData) > 1
                        THEN Processed[data].correlation
                        ELSE correlationMatrix
                 /\ message' = NoMessage
                 /\ last' = [fn |-> "fetchRiskAnalysis",
                             outcome |-> IF WithHistory(data) = <<>>
                                         THEN "no historical data" ELSE "ok"]
        ELSE /\ message' = MessageError("Failed to fetch market data")
             /\ last' = [fn |-> "fetchRiskAnalysis", outcome |-> "no data"]
             /\ UNCHANGED <<riskMetrics, correlationMatrix>>
    /\ loading' = FALSE
    /\ run' = Idle
    /\ UNCHANGED <<headerVars, optimizerVars, page, history, returns, prices, priceData, given, symbols, symbol,
                   selectedPeriod, marketData, indicators, formVars>>

----------------------------------------------------------------------------
(* TechnicalAnalysis: fetchTechnicalAnalysis *)

\* array.slice(-count)
SliceLast(s, count) ==
    IF Len(s) <= count THEN s ELSE SubSeq(s, Len(s) - count + 1, Len(s))

\* the texts typed into the symbol Input
TechnicalTexts ==
    {<<>>, <<" ">>, AAPL, <<"m", "s", "f", "t">>, <<"A", "A", "P", "L", " ">>, TSLA}

\* the Input's onChange
TechnicalSymbolChange ==
    /\ page = "TechnicalAnalysis"
    /\ \E value \in TechnicalTexts : symbol' = toUpperCase(value)
    /\ message' = NoMessage
    /\ UNCHANGED <<headerVars, optimizerVars, routineVars, symbols, selectedPeriod, loading, riskMetrics,
                   correlationMatrix, marketData, indicators, run, formVars>>

\* the indicators object with the default periods of the three routines
IndicatorsOf(p) ==
    LET rsi == calculateRSI(p, 14)
        macd == calculateMACD(p, 12, 26, 9)
        bollinger == calculateBollingerBands(p, 20, 2)
    IN  [rsi |-> SliceLast(rsi, 100),
         macd |-> [macd |-> SliceLast(macd.macd, 100),
                   signal |-> SliceLast(macd.signal, 100),
                   histogram |-> SliceLast(macd.histogram, 100)],
         bollinger |-> [upper |-> SliceLast(bollinger.upper, 100),
                        middle |-> SliceLast(bollinger.middle, 100),
                        lower |-> SliceLast(bollinger.lower, 100)]]

\* the historical_data rows the server can send
ServerRows == {HistoricalData(sym, day).rows : sym \in KnownSymbols, day \in 1..2}

\* the indicators of each of them
Indicators == [rows \in ServerRows |-> IndicatorsOf(ClosePrices(rows))]

\* a click on Analyze, up to the await of fetch; the Button takes no click
\* while loading
fetchTechnicalAnalysis ==
    /\ page = "TechnicalAnalysis"
    /\ ~loading
    /\ IF trim(symbol) = <<>>
       THEN /\ message' = MessageError("Please enter a symbol")
            /\ last' = [fn |-> "fetchTechnicalAnalysis", outcome |-> "no symbols"]
            /\ UNCHANGED <<loading, run>>
       ELSE /\ loading' = TRUE
            /\ run' = [pc |-> "fetch",
                       body |-> [symbols |-> <<symbol>>, period |-> selectedPeriod]]
            /\ message' = NoMessage
            /\ last' = [fn |-> "fetchTechnicalAnalysis", outcome |-> "sent"]
    /\ UNCHANGED <<headerVars, optimizerVars, page, history, returns, prices, priceData, given, symbols, symbol,
                   selectedPeriod, riskMetrics, correlationMatrix, marketData,
                   indicators, formVars>>

\* fetch resolves: the run awaits response.json()
TechnicalFetchResolves ==
    /\ page = "TechnicalAnalysis"
    /\ run.pc = "fetch"
    /\ run' = [run EXCEPT !.pc = "json"]
    /\ UNCHANGED <<headerVars, optimizerVars, routineVars, symbols, symbol, selectedPeriod, loading,
                   riskMetrics, correlationMatrix, marketData, indicators, message, formVars>>

\* fetch or response.json() rejects: catch, then finally
TechnicalRunThrows ==
    /\ page = "TechnicalAnalysis"
    /\ run.pc \in {"fetch", "json"}
    /\ message' = MessageError("Error fetching technical analysis data")
    /\ loading' = FALSE
    /\ run' = Idle
    /\ last' = [fn |-> "fetchTechnicalAnalysis", outcome |-> "threw"]
    /\ UNCHANGED <<headerVars, optimizerVars, page, history, returns, prices, priceData, given, symbols, symbol,
                   selectedPeriod, riskMetrics, correlationMatrix, marketData,
                   indicators, formVars>>

\* response.json() resolves: the rest of the try block, then finally; symbol
\* is the one the run was started with
TechnicalJsonResolves ==
    /\ page = "TechnicalAnalysis"
    /\ run.pc = "json"
    /\ \E result \in Results(run.body) :
        IF HasData(result)
        THEN LET data == Lookup(result.data.data, run.body.symbols[1])
             IN  IF data.historical_data.present
                 THEN LET rows == data.historical_data.rows
                      IN  /\ marketData' =
                                [prices |-> ClosePrices(rows),
                                 dates |-> [i \in DOMAIN rows |-> rows[i].date],
                                 historical |-> rows]
                          /\ indicators' = Indicators[rows]
                          /\ message' = NoMessage
                          /\ last' = [fn |-> "fetchTechnicalAnalysis",
                                      outcome |-> "ok"]
                 ELSE /\ message' = MessageError("No historical data available")
                      /\ last' = [fn |-> "fetchTechnicalAnalysis",
                                  outcome |-> "no historical data"]
                      /\ UNCHANGED <<marketData, indicators>>
        ELSE /\ message' = MessageError("Failed to fetch market data")
             /\ last' = [fn |-> "fetchTechnicalAnalysis", outcome |-> "no data"]
             /\ UNCHANGED <<marketData, indicators>>
    /\ loading' = FALSE
    /\ run' = Idle
    /\ UNCHANGED <<headerVars, optimizerVars, page, history, returns, prices, priceData, given, symbols, symbol,
                   selectedPeriod, riskMetrics, correlationMatrix, formVars>>

----------------------------------------------------------------------------
(* The two analysis pages as the user drives them *)

\* one of the two pages is mounted, no routine has been called
InitAnalysis ==
    /\ page \in {"RiskAnalysis", "TechnicalAnalysis"}
    /\ returns = <<>>
    /\ prices = <<>>
    /\ priceData = <<>>
    /\ given = [returns |-> returns, prices |-> prices, priceData |-> priceData]
    /\ last = NoCall
    /\ AnalysisMounted
    /\ OptimizerState
    /\ FormsMounted
    /\ history = <<PathOf(page)>>
    /\ HeaderMounted(EmptyStorage)

\* the promises of a run in flight
RunSettles ==
    \/ RiskFetchResolves
    \/ RiskRunThrows
    \/ RiskJsonResolves
    \/ TechnicalFetchResolves
    \/ TechnicalRunThrows
    \/ TechnicalJsonResolves

NextAnalysis ==
    \/ RiskSymbolsChange
    \/ TechnicalSymbolChange
    \/ SetPeriod
    \/ fetchRiskAnalysis
    \/ fetchTechnicalAnalysis
    \/ RiskFetchResolves
    \/ RiskRunThrows
    \/ RiskJsonResolves
    \/ TechnicalFetchResolves
    \/ TechnicalRunThrows
    \/ TechnicalJsonResolves

SpecAnalysis == InitAnalysis /\ [][NextAnalysis]_vars

\* every promise of a run in flight settles
FairSpecAnalysis == SpecAnalysis /\ WF_vars(RunSettles)

----------------------------------------------------------------------------
(* Header: the health check and the notifications *)

\* health checks started per mount, at most
MaxChecks == 3

\* the three notifications checkApiStatus generates
SampleNotifications ==
    <<[id |-> 1, title |-> "Portfolio Optimization Complete", type |-> "success"],
      [id |-> 2, title |-> "Market Alert", type |-> "info"],
      [id |-> 3, title |-> "Risk Analysis Warning", type |-> "warning"]>>

MessageSuccess(content) == [type |-> "success", content |-> content]

MessageInfo(content) == [type |-> "info", content |-> content]

\* setInterval(checkApiStatus, 30000) fires while the Header is mounted:
\* another checkApiStatus() is in flight
IntervalFires ==
    /\ mounted
    /\ Len(checks) < MaxChecks
    /\ checks' = Append(checks, "pending")
    /\ UNCHANGED <<routineVars, pageVars, message, userVars, mounted,
                   apiStatus, notifications, clearedAll>>

\* fetch of check i resolves with response.ok; the setters of an unmounted
\* component do nothing
CheckResolvesOk ==
    \E i \in DOMAIN checks :
        /\ checks[i] = "pending"
        /\ checks' = [checks EXCEPT ![i] = "ok"]
        /\ IF mounted
           THEN /\ apiStatus' = "connected"
                /\ notifications' = SampleNotifications
           ELSE UNCHANGED <<apiStatus, notifications>>
        /\ UNCHANGED <<routineVars, pageVars, message, userVars, mounted,
                       clearedAll>>

\* fetch of check i resolves with a response that is not ok
CheckResolvesNotOk ==
    \E i \in DOMAIN checks :
        /\ checks[i] = "pending"
        /\ checks' = [checks EXCEPT ![i] = "not ok"]
        /\ apiStatus' = IF mounted THEN "disconnected" ELSE apiStatus
        /\ UNCHANGED <<routineVars, pageVars, message, userVars, mounted,
                       notifications, clearedAll>>

\* mutant: the catch block only logs the error
CheckRejects_OnlyLogs ==
    \E i \in DOMAIN checks :
        /\ checks[i] = "pending"
        /\ checks' = [checks EXCEPT ![i] = "threw"]
        /\ UNCHANGED <<routineVars, pageVars, message, userVars, mounted,
                       apiStatus, notifications, clearedAll>>

\* fetch of check i rejects: the catch block
CheckRejects ==
    \E i \in DOMAIN checks :
        /\ checks[i] = "pending"
        /\ checks' = [checks EXCEPT ![i] = "threw"]
        /\ apiStatus' = IF mounted THEN "disconnected" ELSE apiStatus
        /\ UNCHANGED <<routineVars, pageVars, message, userVars, mounted,
                       notifications, clearedAll>>

\* a click on Clear All, which is rendered while there are notifications
clearAllNotifications ==
    /\ mounted
    /\ Len(notifications) > 0
    /\ notifications' = <<>>
    /\ message' = MessageSuccess("All notifications cleared")
    /\ clearedAll' = TRUE
    /\ UNCHANGED <<routineVars, pageVars, userVars, mounted, apiStatus, checks>>

\* the Header unmounts: the effect's cleanup clears the interval
HeaderUnmount ==
    /\ mounted
    /\ mounted' = FALSE
    /\ UNCHANGED <<routineVars, pageVars, message, userVars, apiStatus,
                   notifications, checks, clearedAll>>

\* the application as loaded, the Header mounted over an empty localStorage
InitHeaderStatus ==
    /\ page = "RiskAnalysis"
    /\ returns = <<>>
    /\ prices = <<>>
    /\ priceData = <<>>
    /\ given = [returns |-> returns, prices |-> prices, priceData |-> priceData]
    /\ last = NoCall
    /\ AnalysisMounted
    /\ OptimizerState
    /\ FormsMounted
    /\ history = <<PathOf(page)>>
    /\ HeaderMounted(EmptyStorage)

NextHeaderStatus ==
    \/ IntervalFires
    \/ CheckResolvesOk
    \/ CheckResolvesNotOk
    \/ CheckRejects
    \/ clearAllNotifications
    \/ HeaderUnmount

SpecHeaderStatus == InitHeaderStatus /\ [][NextHeaderStatus]_vars

----------------------------------------------------------------------------
(* Header: profile, settings and logout *)

\* the names typed into the profile form
Names == {"John Doe", "Jane Roe"}

\* the themes picked in the settings form
Themes == {"light", "dark"}

Profiles == {[DefaultProfile EXCEPT !.name = Str(n)] : n \in Names}

Settings ==
    {[DefaultSettings EXCEPT !.theme = Str(t), !.notifications = Bool(b)] :
        t \in Themes, b \in BOOLEAN}

\* what an earlier session can have left in localStorage
Storages ==
    {[userProfile |-> p, userSettings |-> q] :
        p \in {Null} \cup {JSONstringify(x, ProfileKeys) : x \in Profiles},
        q \in {Null} \cup {JSONstringify(x, SettingsKeys) : x \in Settings}}

\* the user menu is within reach: no modal or confirmation covers the page
MenuInReach ==
    mounted /\ ~profileModalVisible /\ ~settingsModalVisible /\ ~confirmOpen

\* a click on Profile
handleProfileClick ==
    /\ MenuInReach
    /\ profileModalVisible' = TRUE
    /\ profileForm' = userProfile
    /\ UNCHANGED <<routineVars, pageVars, message, statusVars,
                   settingsModalVisible, userProfile, userSettings, settingsForm,
                   localStorage, confirmOpen, reloadTimer>>

\* the user types a name into the profile form
ProfileFormChange ==
    /\ mounted /\ profileModalVisible
    /\ \E n \in Names : profileForm' = [profileForm EXCEPT !.name = Str(n)]
    /\ UNCHANGED <<routineVars, pageVars, message, statusVars,
                   profileModalVisible, settingsModalVisible, userProfile,
                   userSettings, settingsForm, localStorage, confirmOpen,
                   reloadTimer>>

\* the profile Modal's onCancel
ProfileCancel ==
    /\ mounted /\ profileModalVisible
    /\ profileModalVisible' = FALSE
    /\ UNCHANGED <<routineVars, pageVars, message, statusVars,
                   settingsModalVisible, userProfile, userSettings, profileForm,
                   settingsForm, localStorage, confirmOpen, reloadTimer>>

\* mutant: the updated profile is stored before the form values are overlaid
handleProfileUpdate_StoresPrevious ==
    /\ mounted /\ profileModalVisible
    /\ LET values == profileForm
           updatedProfile == Spread(userProfile, values)
       IN  /\ userProfile' = updatedProfile
           /\ localStorage' = [localStorage EXCEPT
                                  !.userProfile = JSONstringify(userProfile, ProfileKeys)]
    /\ profileModalVisible' = FALSE
    /\ message' = MessageSuccess("Profile updated successfully!")
    /\ UNCHANGED <<routineVars, pageVars, statusVars, settingsModalVisible,
                   userSettings, profileForm, settingsForm, confirmOpen,
                   reloadTimer>>

\* Update Profile: the form is valid and onFinish gets its values
handleProfileUpdate ==
    /\ mounted /\ profileModalVisible
    /\ LET values == profileForm
           updatedProfile == Spread(userProfile, values)
       IN  /\ userProfile' = updatedProfile
           /\ localStorage' = [localStorage EXCEPT
                                  !.userProfile = JSONstringify(updatedProfile, ProfileKeys)]
    /\ profileModalVisible' = FALSE
    /\ message' = MessageSuccess("Profile updated successfully!")
    /\ UNCHANGED <<routineVars, pageVars, statusVars, settingsModalVisible,
                   userSettings, profileForm, settingsForm, confirmOpen,
                   reloadTimer>>

\* a click on Settings
handleSettingsClick ==
    /\ MenuInReach
    /\ settingsModalVisible' = TRUE
    /\ settingsForm' = userSettings
    /\ UNCHANGED <<routineVars, pageVars, message, statusVars,
                   profileModalVisible, userProfile, userSettings, profileForm,
                   localStorage, confirmOpen, reloadTimer>>

\* the user picks a theme or flips the notifications switch
SettingsFormChange ==
    /\ mounted /\ settingsModalVisible
    /\ \/ \E t \in Themes : settingsForm' = [settingsForm EXCEPT !.theme = Str(t)]
       \/ \E b \in BOOLEAN :
            settingsForm' = [settingsForm EXCEPT !.notifications = Bool(b)]
    /\ UNCHANGED <<routineVars, pageVars, message, statusVars,
                   profileModalVisible, settingsModalVisible, userProfile,
                   userSettings, profileForm, localStorage, confirmOpen,
                   reloadTimer>>

\* the settings Modal's onCancel
SettingsCancel ==
    /\ mounted /\ settingsModalVisible
    /\ settingsModalVisible' = FALSE
    /\ UNCHANGED <<routineVars, pageVars, message, statusVars,
                   profileModalVisible, userProfile, userSettings, profileForm,
                   settingsForm, localStorage, confirmOpen, reloadTimer>>

\* Save Settings: onFinish gets the form's values; the last message on
\* screen is the theme notice when the theme has changed
handleSettingsUpdate ==
    /\ mounted /\ settingsModalVisible
    /\ LET values == settingsForm
           updatedSettings == Spread(userSettings, values)
       IN  /\ userSettings' = updatedSettings
           /\ localStorage' = [localStorage EXCEPT
                                  !.userSettings = JSONstringify(updatedSettings, SettingsKeys)]
           /\ message' = IF values.theme # userSettings.theme
                         THEN MessageInfo("Theme change will take effect after page refresh")
                         ELSE MessageSuccess("Settings updated successfully!")
    /\ settingsModalVisible' = FALSE
    /\ UNCHANGED <<routineVars, pageVars, statusVars, profileModalVisible,
                   userProfile, profileForm, settingsForm, confirmOpen,
                   reloadTimer>>

\* a click on Logout: Modal.confirm opens
handleLogout ==
    /\ MenuInReach
    /\ confirmOpen' = TRUE
    /\ UNCHANGED <<routineVars, pageVars, message, statusVars,
                   profileModalVisible, settingsModalVisible, userProfile,
                   userSettings, profileForm, settingsForm, localStorage,
                   reloadTimer>>

\* onOk: both keys are removed and the reload is set for a second later
LogoutOk ==
    /\ mounted /\ confirmOpen
    /\ localStorage' = EmptyStorage
    /\ message' = MessageSuccess("Logged out successfully!")
    /\ reloadTimer' = TRUE
    /\ confirmOpen' = FALSE
    /\ UNCHANGED <<routineVars, pageVars, statusVars, profileModalVisible,
                   settingsModalVisible, userProfile, userSettings, profileForm,
                   settingsForm>>

\* Cancel closes the confirmation
LogoutCancel ==
    /\ mounted /\ confirmOpen
    /\ confirmOpen' = FALSE
    /\ UNCHANGED <<routineVars, pageVars, message, statusVars,
                   profileModalVisible, settingsModalVisible, userProfile,
                   userSettings, profileForm, settingsForm, localStorage,
                   reloadTimer>>

\* the timer fires: window.location.reload() mounts the application anew over
\* the localStorage as it is then
ReloadFires ==
    /\ reloadTimer
    /\ mounted' = TRUE
    /\ apiStatus' = "checking"
    /\ notifications' = <<>>
    /\ checks' = <<"pending">>
    /\ clearedAll' = FALSE
    /\ profileModalVisible' = FALSE
    /\ settingsModalVisible' = FALSE
    /\ userProfile' = LoadedProfile(localStorage)
    /\ userSettings' = LoadedSettings(localStorage)
    /\ profileForm' = NoFields
    /\ settingsForm' = NoFields
    /\ localStorage' = localStorage
    /\ confirmOpen' = FALSE
    /\ reloadTimer' = FALSE
    /\ symbols' = <<AAPL, GOOGL, MSFT>>
    /\ symbol' = AAPL
    /\ selectedPeriod' = "1y"
    /\ loading' = FALSE
    /\ riskMetrics' = Null
    /\ correlationMatrix' = Null
    /\ marketData' = Null
    /\ indicators' = Null
    /\ run' = Idle
    /\ message' = NoMessage
    /\ last' = [fn |-> "reload"]
    /\ UNCHANGED <<page, history, returns, prices, priceData, given, optimizerVars, formVars>>

\* the application as loaded over what an earlier session left in localStorage
InitHeaderUser ==
    /\ page = "RiskAnalysis"
    /\ returns = <<>>
    /\ prices = <<>>
    /\ priceData = <<>>
    /\ given = [returns |-> returns, prices |-> prices, priceData |-> priceData]
    /\ last = NoCall
    /\ AnalysisMounted
    /\ OptimizerState
    /\ FormsMounted
    /\ history = <<PathOf(page)>>
    /\ \E storage \in Storages : HeaderMounted(storage)

NextHeaderUser ==
    \/ handleProfileClick
    \/ ProfileFormChange
    \/ ProfileCancel
    \/ handleProfileUpdate
    \/ handleSettingsClick
    \/ SettingsFormChange
    \/ SettingsCancel
    \/ handleSettingsUpdate
    \/ handleLogout
    \/ LogoutOk
    \/ LogoutCancel
    \/ ReloadFires

SpecHeaderUser == InitHeaderUser /\ [][NextHeaderUser]_vars

----------------------------------------------------------------------------
(* App.js and Sidebar.js: navigation *)

\* entries of the history stack, at most
MaxHistory == 3

\* the routes registered under a path of their own
Registered == {i \in DOMAIN AppRoutes : AppRoutes[i].path # Star}

\* the pathnames the user opens from the address bar or a link
UrlPaths ==
    {AppRoutes[i].path : i \in Registered}
    \cup {toUpperCase(PathMarket), PathRisk \o Slash, PathAbout \o Slash \o Slash,
          Slash \o <<"R", "i", "s", "k">>, Slash \o <<"f", "o", "o">>,
          PathMarket \o Slash \o <<"x">>, PathRisk \o <<"s">>}

\* the user opens a pathname: the Routes render its page
OpenUrl ==
    /\ Len(history) < MaxHistory
    /\ \E pathname \in UrlPaths :
        /\ history' = Append(history, pathname)
        /\ page' = Rendered(AppRoutes, pathname)
        /\ last' = [fn |-> "open", key |-> pathname]
    /\ UNCHANGED <<returns, prices, priceData, given, pageVars, message, headerVars>>

\* a click on an item of the Sidebar menu: navigate(key)
handleMenuClick ==
    /\ Len(history) < MaxHistory
    /\ \E i \in DOMAIN MenuKeys :
        /\ history' = Append(history, MenuKeys[i])
        /\ page' = Rendered(AppRoutes, MenuKeys[i])
        /\ last' = [fn |-> "handleMenuClick", key |-> MenuKeys[i]]
    /\ UNCHANGED <<returns, prices, priceData, given, pageVars, message, headerVars>>

\* the browser's back button
GoBack ==
    /\ Len(history) > 1
    /\ history' = SubSeq(history, 1, Len(history) - 1)
    /\ page' = Rendered(AppRoutes, history[Len(history) - 1])
    /\ last' = [fn |-> "back", key |-> history[Len(history) - 1]]
    /\ UNCHANGED <<returns, prices, priceData, given, pageVars, message, headerVars>>

\* the application opened at a pathname
InitRouter ==
    /\ \E pathname \in UrlPaths :
        /\ history = <<pathname>>
        /\ page = Rendered(AppRoutes, pathname)
    /\ returns = <<>>
    /\ prices = <<>>
    /\ priceData = <<>>
    /\ given = [returns |-> returns, prices |-> prices, priceData |-> priceData]
    /\ last = NoCall
    /\ AnalysisMounted
    /\ OptimizerState
    /\ FormsMounted
    /\ message = NoMessage
    /\ HeaderMounted(EmptyStorage)

NextRouter ==
    \/ OpenUrl
    \/ handleMenuClick
    \/ GoBack

SpecRouter == InitRouter /\ [][NextRouter]_vars

----------------------------------------------------------------------------
(* PortfolioOptimizer.js: the query and the handlers.  optimizationData is  *)
(* the query's data per query key; the page shows that of the current key.  *)

\* the texts typed into the symbols Input
OptimizerTexts ==
    {join(OptimizerSymbols, ","), AAPL, <<" ">> \o toLowerCase(MSFT) \o <<" ", ",">> \o AAPL,
     <<>>}

QueryKey == [symbols |-> symbols, method |-> method, riskFreeRate |-> riskFreeRateState]

\* the body fetchPortfolioOptimization posts to /api/portfolio/optimize
RequestBody(syms, m, rate) == [symbols |-> syms, method |-> m, risk_free_rate |-> rate]

\* the response to a request, as far as the page tells responses apart
ResponseTo(body) == [method |-> body.method, weights |-> body.symbols]

\* isLoading: the query has no data and is fetching
isLoading == isFetching /\ optimizationData[QueryKey] = Null

\* onChange of the symbols Input
InputValueChange ==
    /\ \E text \in OptimizerTexts :
        /\ inputValue' = text
        /\ last' = [fn |-> "setInputValue", value |-> text]
    /\ UNCHANGED <<page, history, returns, prices, priceData, given, analysisVars,
                   method, riskFreeRateState, isFetching, optimizationData, sent,
                   message, headerVars, formVars>>

\* onChange of the method Select: the query key changes and the query runs
setMethod ==
    /\ \E m \in Methods \ {method} :
        /\ method' = m
        /\ sent' = RequestBody(symbols, m, riskFreeRateState)
        /\ last' = [fn |-> "setMethod", value |-> m]
    /\ isFetching' = TRUE
    /\ UNCHANGED <<page, history, returns, prices, priceData, given, analysisVars,
                   inputValue, riskFreeRateState, optimizationData, message,
                   headerVars, formVars>>

\* onChange of the rate Input: a new rate changes the query key and the
\* query runs, the same rate changes nothing
setRiskFreeRate ==
    /\ \E text \in RateTexts :
        /\ riskFreeRateState' = RateOf(text)
        /\ last' = [fn |-> "setRiskFreeRate", value |-> text]
        /\ IF RateOf(text) # riskFreeRateState
           THEN /\ sent' = RequestBody(symbols, method, RateOf(text))
                /\ isFetching' = TRUE
           ELSE UNCHANGED <<sent, isFetching>>
    /\ UNCHANGED <<page, history, returns, prices, priceData, given, analysisVars,
                   inputValue, method, optimizationData, message, headerVars, formVars>>

\* a click on Optimize, which the Button takes unless it is loading, or
\* Enter in the symbols Input: refetch() runs the query with the state
handleOptimize ==
    /\ \E by \in {"click", "enter"} :
        /\ by = "click" => ~isLoading
        /\ last' = [fn |-> "handleOptimize", value |-> by]
    /\ sent' = RequestBody(symbols, method, riskFreeRateState)
    /\ isFetching' = TRUE
    /\ UNCHANGED <<page, history, returns, prices, priceData, given, analysisVars,
                   inputValue, method, riskFreeRateState, optimizationData, message,
                   headerVars, formVars>>

\* the request of the current key resolves
QueryResolves ==
    /\ isFetching
    /\ isFetching' = FALSE
    /\ optimizationData' = [optimizationData EXCEPT ![QueryKey] = ResponseTo(sent)]
    /\ last' = [fn |-> "resolved"]
    /\ UNCHANGED <<page, history, returns, prices, priceData, given, analysisVars,
                   inputValue, method, riskFreeRateState, sent, message, headerVars, formVars>>

\* the request fails for good: onError
QueryRejects ==
    /\ isFetching
    /\ isFetching' = FALSE
    /\ message' = MessageError("Failed to optimize portfolio")
    /\ last' = [fn |-> "onError"]
    /\ UNCHANGED <<page, history, returns, prices, priceData, given, analysisVars,
                   inputValue, method, riskFreeRateState, optimizationData, sent,
                   headerVars, formVars>>

\* the page mounted: the enabled query runs at once
InitOptimizer ==
    /\ page = "PortfolioOptimizer"
    /\ history = <<PathPortfolio>>
    /\ returns = <<>>
    /\ prices = <<>>
    /\ priceData = <<>>
    /\ given = [returns |-> returns, prices |-> prices, priceData |-> priceData]
    /\ last = NoCall
    /\ symbols = OptimizerSymbols
    /\ symbol = AAPL
    /\ selectedPeriod = "1y"
    /\ loading = FALSE
    /\ riskMetrics = Null
    /\ correlationMatrix = Null
    /\ marketData = Null
    /\ indicators = Null
    /\ run = Idle
    /\ message = NoMessage
    /\ inputValue = join(OptimizerSymbols, ",")
    /\ method = "max_sharpe"
    /\ riskFreeRateState = Num(1, 50)
    /\ isFetching = TRUE
    /\ optimizationData = [key \in QueryKeys |-> Null]
    /\ sent = RequestBody(OptimizerSymbols, "max_sharpe", Num(1, 50))
    /\ FormsMounted
    /\ HeaderMounted(EmptyStorage)

NextOptimizer ==
    \/ InputValueChange
    \/ setMethod
    \/ setRiskFreeRate
    \/ handleOptimize
    \/ QueryResolves
    \/ QueryRejects

SpecOptimizer == InitOptimizer /\ [][NextOptimizer]_vars

----------------------------------------------------------------------------
(* MarketAnalysis.js: the query and the handlers.  marketData is the        *)
(* query's data per query key, isFetching and sent are those of the query   *)
(* of the current key.                                                       *)

MarketSymbols == <<AAPL, GOOGL, MSFT>>

\* the texts typed into the symbols Input
MarketTexts ==
    {join(MarketSymbols, ","),
     <<" ">> \o toLowerCase(MSFT) \o <<" ", ",">> \o AAPL \o <<",">>,
     <<" ", ",", " ">>,
     <<>>}

\* the query keys ['marketAnalysis', symbols, period] the page can reach
MarketKeys ==
    {[symbols |-> symbolList(text), period |-> p] : text \in MarketTexts, p \in Periods}

MarketKey == [symbols |-> symbols, period |-> selectedPeriod]

\* the body fetchMarketAnalysis posts to /api/market-data
MarketRequest(syms, p) == [symbols |-> syms, period |-> p]

\* the response to a request, as far as the page tells responses apart
MarketResponse(body) == [success |-> TRUE, summary |-> body.symbols, period |-> body.period]

\* isLoading: the query has no data and is fetching
marketIsLoading == isFetching /\ marketData[MarketKey] = Null

\* the query after the key became [syms, p]: it runs when enabled
MarketQueryAt(syms, p) ==
    IF Len(syms) > 0
    THEN /\ sent' = MarketRequest(syms, p)
         /\ isFetching' = TRUE
    ELSE /\ isFetching' = FALSE
         /\ UNCHANGED sent

\* mutant: the tokens are kept as typed
handleSymbolsChange_KeepsTokens ==
    /\ \E value \in MarketTexts :
        /\ inputValue' = value
        /\ symbols' = split(value, ",")
        /\ last' = [fn |-> "handleSymbolsChange", request |-> symbols' # symbols /\ Len(symbols') > 0]
        /\ IF symbols' # symbols
           THEN MarketQueryAt(symbols', selectedPeriod)
           ELSE UNCHANGED <<isFetching, sent>>
    /\ UNCHANGED <<page, history, returns, prices, priceData, given, symbol,
                   selectedPeriod, loading, riskMetrics, correlationMatrix, marketData,
                   indicators, run, method, riskFreeRateState, optimizationData,
                   message, headerVars, formVars>>

\* onChange of the symbols Input: a new list changes the query key
handleSymbolsChange ==
    /\ \E value \in MarketTexts :
        /\ inputValue' = value
        /\ symbols' = symbolList(value)
        /\ last' = [fn |-> "handleSymbolsChange", request |-> symbols' # symbols /\ Len(symbols') > 0]
        /\ IF symbols' # symbols
           THEN MarketQueryAt(symbols', selectedPeriod)
           ELSE UNCHANGED <<isFetching, sent>>
    /\ UNCHANGED <<page, history, returns, prices, priceData, given, symbol,
                   selectedPeriod, loading, riskMetrics, correlationMatrix, marketData,
                   indicators, run, method, riskFreeRateState, optimizationData,
                   message, headerVars, formVars>>

\* onChange of the period Select
MarketSetPeriod ==
    /\ \E p \in Periods \ {selectedPeriod} :
        /\ selectedPeriod' = p
        /\ last' = [fn |-> "setPeriod", request |-> Len(symbols) > 0]
        /\ MarketQueryAt(symbols, p)
    /\ UNCHANGED <<page, history, returns, prices, priceData, given, symbols, symbol,
                   loading, riskMetrics, correlationMatrix, marketData, indicators, run,
                   inputValue, method, riskFreeRateState, optimizationData, message,
                   headerVars, formVars>>

\* a click on Analyze, which the Button takes unless it is loading, or Enter
\* in the symbols Input: refetch() runs the query, enabled or not
handleAnalyze ==
    /\ \E by \in {"click", "enter"} :
        /\ by = "click" => ~marketIsLoading
        /\ last' = [fn |-> "handleAnalyze", request |-> TRUE, by |-> by]
    /\ sent' = MarketRequest(symbols, selectedPeriod)
    /\ isFetching' = TRUE
    /\ UNCHANGED <<page, history, returns, prices, priceData, given, analysisVars,
                   inputValue, method, riskFreeRateState, optimizationData, message,
                   headerVars, formVars>>

\* the request of the current key resolves
MarketQueryResolves ==
    /\ isFetching
    /\ isFetching' = FALSE
    /\ marketData' = [marketData EXCEPT ![MarketKey] = MarketResponse(sent)]
    /\ last' = [fn |-> "resolved", request |-> FALSE]
    /\ UNCHANGED <<page, history, returns, prices, priceData, given, symbols, symbol,
                   selectedPeriod, loading, riskMetrics, correlationMatrix, indicators,
                   run, inputValue, method, riskFreeRateState, optimizationData, sent,
                   message, headerVars, formVars>>

\* the request fails for good: onError
MarketQueryRejects ==
    /\ isFetching
    /\ isFetching' = FALSE
    /\ message' = MessageError("Failed to fetch market data")
    /\ last' = [fn |-> "onError", request |-> FALSE]
    /\ UNCHANGED <<page, history, returns, prices, priceData, given, analysisVars,
                   inputValue, method, riskFreeRateState, optimizationData, sent,
                   headerVars, formVars>>

\* the page mounted: the enabled query runs at once
InitMarket ==
    /\ page = "MarketAnalysis"
    /\ history = <<PathMarket>>
    /\ returns = <<>>
    /\ prices = <<>>
    /\ priceData = <<>>
    /\ given = [returns |-> returns, prices |-> prices, priceData |-> priceData]
    /\ last = NoCall
    /\ symbols = MarketSymbols
    /\ symbol = AAPL
    /\ selectedPeriod = "1y"
    /\ loading = FALSE
    /\ riskMetrics = Null
    /\ correlationMatrix = Null
    /\ marketData = [key \in MarketKeys |-> Null]
    /\ indicators = Null
    /\ run = Idle
    /\ message = NoMessage
    /\ inputValue = join(MarketSymbols, ",")
    /\ method = "max_sharpe"
    /\ riskFreeRateState = Num(1, 50)
    /\ isFetching = TRUE
    /\ optimizationData = [key \in QueryKeys |-> Null]
    /\ sent = MarketRequest(MarketSymbols, "1y")
    /\ FormsMounted
    /\ HeaderMounted(EmptyStorage)

NextMarket ==
    \/ handleSymbolsChange
    \/ MarketSetPeriod
    \/ handleAnalyze
    \/ MarketQueryResolves
    \/ MarketQueryRejects

SpecMarket == InitMarket /\ [][NextMarket]_vars

----------------------------------------------------------------------------
(* The three pages that post to /api/market-data, one of them mounted *)

InitMarketData ==
    \/ InitMarket
    \/ InitAnalysis

NextMarketData ==
    \/ page = "MarketAnalysis" /\ handleSymbolsChange
    \/ page = "MarketAnalysis" /\ MarketSetPeriod
    \/ page = "MarketAnalysis" /\ handleAnalyze
    \/ page = "MarketAnalysis" /\ MarketQueryResolves
    \/ page = "MarketAnalysis" /\ MarketQueryRejects
    \/ page # "MarketAnalysis" /\ NextAnalysis

SpecMarketData == InitMarketData /\ [][NextMarketData]_vars

----------------------------------------------------------------------------
(* Backtesting.js and SentimentAnalysis: the queries, all three created     *)
(* with enabled: false, and the handlers.  A query follows the key made of  *)
(* the page's inputs: when an input changes, the query of the new key is    *)
(* idle, and the request of the old key is followed no further.             *)

\* retry: 1 of the QueryClient's default options
Retry == 1

\* the body the query function of a query posts, from the current state
BodyOf(name) ==
    CASE name = "backtest" ->
            [symbol |-> symbol, strategy |-> strategy, start_date |-> startDate,
             end_date |-> endDate, initial_cash |-> initialCash]
      [] name = "sentimentAnalysis" -> [text |-> sentimentText]
      [] name = "batchSentimentAnalysis" -> [texts |-> batchTexts]

\* data of useQuery: the result received for the current key, if any
DataOf(name) ==
    IF queries[name].received # Null /\ queries[name].received.request = BodyOf(name)
    THEN queries[name].received.data
    ELSE Null

\* isLoading of useQuery: no data and fetching
IsLoadingOf(name) == queries[name].isFetching /\ DataOf(name) = Null

backtestData == DataOf("backtest")

\* a trade of a backtest response
Trade(n) ==
    [entry_date |-> "2023-02-01", exit_date |-> "2023-03-01",
     entry_price |-> FromInt(150), exit_price |-> FromInt(150 + n),
     quantity |-> FromInt(10), pnl |-> FromInt(10 * n), pnl_pct |-> Num(n, 150)]

\* the trades arrays of the responses
TradeLists == {<<>>, <<Trade(3)>>}

\* the successful responses to a request
ResponsesTo(name, body) ==
    CASE name = "backtest" ->
            {[symbol |-> body.symbol, strategy |-> body.strategy,
              total_trades |-> Len(trades), trades |-> trades] : trades \in TradeLists}
      [] name = "sentimentAnalysis" ->
            {[text |-> body.text, sentiment |-> sentiment] :
                sentiment \in {"positive", "negative"}}
      [] name = "batchSentimentAnalysis" -> {[total |-> Len(body.texts)]}

\* the message of a query's onError
ErrorOf(name) ==
    CASE name = "backtest" -> "Failed to run backtest"
      [] name = "sentimentAnalysis" -> "Failed to analyze sentiment"
      [] name = "batchSentimentAnalysis" -> "Failed to analyze batch sentiment"

\* the page a query belongs to
PageOf(name) == IF name = "backtest" THEN "Backtesting" ELSE "SentimentAnalysis"

\* createEquityCurve of a response's trades array: null for an empty one,
\* else the description of a chart of 252 random points
createEquityCurve(trades) ==
    IF Len(trades) = 0 THEN Null
    ELSE [data |-> <<[name |-> "Equity Curve", type |-> "scatter"]>>,
          layout |-> [title |-> "Equity Curve", height |-> 400]]

\* createDrawdownChart, likewise
createDrawdownChart(trades) ==
    IF Len(trades) = 0 THEN Null
    ELSE [data |-> <<[name |-> "Drawdown %", type |-> "scatter"]>>,
          layout |-> [title |-> "Drawdown Analysis", height |-> 300]]

\* reading a property of null throws a TypeError
ReadThrows(object) == object = Null

\* what rendering Backtesting comes to: the form alone, the form with the
\* results, or a TypeError from the props of the two Plot elements
BacktestingRender ==
    IF backtestData = Null \/ IsLoadingOf("backtest") THEN "form"
    ELSE IF \/ ReadThrows(createEquityCurve(backtestData.trades))
            \/ ReadThrows(createDrawdownChart(backtestData.trades))
         THEN "TypeError"
         ELSE "results"

\* the page is on screen: a render that threw has unmounted the application
OnScreen(p) ==
    /\ page = p
    /\ p = "Backtesting" => BacktestingRender # "TypeError"

\* the queries after an input changed: those whose key changed are idle
Rekeyed(name, before, after) ==
    IF before = after THEN queries[name]
    ELSE [queries[name] EXCEPT !.isFetching = FALSE, !.failureCount = 0]

\* the texts typed into the inputs
BacktestSymbolTexts == {AAPL, toLowerCase(MSFT)}
Strategies == {"moving_average", "rsi"}
StartDates == {"2023-01-01", "2023-06-01"}
EndDates == {"2023-12-31", "2023-09-30"}
CashTexts == {<<"5", "0", "0", "0", "0">>, <<>>, <<"0">>}
SentimentTexts ==
    {"Apple's quarterly earnings exceeded expectations with strong iPhone sales",
     "Shares fell", ""}
BatchTextAreas ==
    {<<"U", "p", "\n", " ", "\n", "D", "o", "w", "n", "\n">>,
     <<" ", "F", "l", "a", "t">>,
     <<>>}

\* Array.prototype.filter(t => t.trim())
RECURSIVE FilterNonBlank(_)
FilterNonBlank(list) ==
    IF list = <<>> THEN <<>>
    ELSE IF trim(Head(list)) = <<>> THEN FilterNonBlank(Tail(list))
    ELSE <<Head(list)>> \o FilterNonBlank(Tail(list))

\* the five inputs of Backtesting, one changed
BacktestInput(sym, strat, start, end, cash) ==
    /\ OnScreen("Backtesting")
    /\ symbol' = sym
    /\ strategy' = strat
    /\ startDate' = start
    /\ endDate' = end
    /\ initialCash' = cash
    /\ queries' = [queries EXCEPT !["backtest"] =
                      Rekeyed("backtest",
                              <<symbol, strategy, startDate, endDate, initialCash>>,
                              <<sym, strat, start, end, cash>>)]
    /\ last' = [fn |-> "setState"]
    /\ UNCHANGED <<page, history, returns, prices, priceData, given, symbols,
                   selectedPeriod, loading, riskMetrics, correlationMatrix, marketData,
                   indicators, run, optimizerVars, sentimentText, batchTexts, message,
                   headerVars>>

\* onChange of the symbol Input
BacktestSetSymbol ==
    \E value \in BacktestSymbolTexts :
        BacktestInput(toUpperCase(value), strategy, startDate, endDate, initialCash)

\* mutant: the query runs whenever its key changes
setStrategy_RunsQuery ==
    /\ OnScreen("Backtesting")
    /\ \E value \in Strategies \ {strategy} :
        /\ strategy' = value
        /\ queries' = [queries EXCEPT !["backtest"] =
              [queries["backtest"] EXCEPT
                  !.isFetching = TRUE, !.failureCount = 0,
                  !.sent = [BodyOf("backtest") EXCEPT !.strategy = value]]]
    /\ last' = [fn |-> "setState"]
    /\ UNCHANGED <<page, history, returns, prices, priceData, given, analysisVars,
                   optimizerVars, startDate, endDate, initialCash, sentimentText,
                   batchTexts, message, headerVars>>

\* onChange of the strategy Select
setStrategy ==
    \E value \in Strategies :
        BacktestInput(symbol, value, startDate, endDate, initialCash)

\* onChange of the start date Input
setStartDate ==
    \E value \in StartDates :
        BacktestInput(symbol, strategy, value, endDate, initialCash)

\* onChange of the end date Input
setEndDate ==
    \E value \in EndDates :
        BacktestInput(symbol, strategy, startDate, value, initialCash)

\* onChange of the initial cash Input
setInitialCash ==
    \E value \in CashTexts :
        BacktestInput(symbol, strategy, startDate, endDate,
                      OrElse(parseFloat(value), FromInt(100000)))

\* onChange of the single text area
setText ==
    /\ OnScreen("SentimentAnalysis")
    /\ \E value \in SentimentTexts :
        /\ sentimentText' = value
        /\ queries' = [queries EXCEPT !["sentimentAnalysis"] =
                          Rekeyed("sentimentAnalysis", sentimentText, value)]
    /\ last' = [fn |-> "setState"]
    /\ UNCHANGED <<page, history, returns, prices, priceData, given, analysisVars,
                   optimizerVars, strategy, startDate, endDate, initialCash,
                   batchTexts, message, headerVars>>

\* onChange of the batch text area
setBatchTexts ==
    /\ OnScreen("SentimentAnalysis")
    /\ \E value \in BatchTextAreas :
        /\ batchTexts' = FilterNonBlank(split(value, "\n"))
        /\ queries' = [queries EXCEPT !["batchSentimentAnalysis"] =
                          Rekeyed("batchSentimentAnalysis", batchTexts, batchTexts')]
    /\ last' = [fn |-> "setState"]
    /\ UNCHANGED <<page, history, returns, prices, priceData, given, analysisVars,
                   optimizerVars, strategy, startDate, endDate, initialCash,
                   sentimentText, message, headerVars>>

\* refetch() of a query: it posts the body unless the request is under way
Refetch(name, handler) ==
    /\ OnScreen(PageOf(name))
    /\ ~IsLoadingOf(name)
    /\ queries' = [queries EXCEPT ![name] =
          IF queries[name].isFetching THEN queries[name]
          ELSE [queries[name] EXCEPT !.isFetching = TRUE, !.failureCount = 0,
                                     !.sent = BodyOf(name)]]
    /\ last' = [fn |-> handler]
    /\ UNCHANGED <<page, history, returns, prices, priceData, given, analysisVars,
                   optimizerVars, strategy, startDate, endDate, initialCash,
                   sentimentText, batchTexts, message, headerVars>>

\* a click on Run Backtest, which the Button takes unless it is loading
handleBacktest == Refetch("backtest", "handleBacktest")

\* a click on Analyze Sentiment
SentimentHandleAnalyze == Refetch("sentimentAnalysis", "handleAnalyze")

\* a click on Analyze Batch
handleBatchAnalyze == Refetch("batchSentimentAnalysis", "handleBatchAnalyze")

\* the request of a query resolves
FormQueryResolves ==
    \E name \in QueryNames :
        /\ OnScreen(PageOf(name))
        /\ queries[name].isFetching
        /\ \E data \in ResponsesTo(name, queries[name].sent) :
            queries' = [queries EXCEPT ![name] =
                [queries[name] EXCEPT
                    !.isFetching = FALSE, !.failureCount = 0,
                    !.received = [request |-> queries[name].sent, data |-> data]]]
        /\ last' = [fn |-> "settled"]
        /\ UNCHANGED <<page, history, returns, prices, priceData, given, analysisVars,
                       optimizerVars, strategy, startDate, endDate, initialCash,
                       sentimentText, batchTexts, message, headerVars>>

\* the request of a query fails: the query function runs again Retry times
\* with the values it was started with, then onError
FormQueryFails ==
    \E name \in QueryNames :
        /\ OnScreen(PageOf(name))
        /\ queries[name].isFetching
        /\ IF queries[name].failureCount < Retry
           THEN /\ queries' = [queries EXCEPT ![name].failureCount = @ + 1]
                /\ UNCHANGED message
           ELSE /\ queries' = [queries EXCEPT ![name].isFetching = FALSE]
                /\ message' = MessageError(ErrorOf(name))
        /\ last' = [fn |-> "settled"]
        /\ UNCHANGED <<page, history, returns, prices, priceData, given, analysisVars,
                       optimizerVars, strategy, startDate, endDate, initialCash,
                       sentimentText, batchTexts, headerVars>>

\* one of the two pages mounted
InitForms ==
    /\ page \in {"Backtesting", "SentimentAnalysis"}
    /\ history = <<PathOf(page)>>
    /\ returns = <<>>
    /\ prices = <<>>
    /\ priceData = <<>>
    /\ given = [returns |-> returns, prices |-> prices, priceData |-> priceData]
    /\ last = NoCall
    /\ AnalysisMounted
    /\ OptimizerState
    /\ FormsMounted
    /\ HeaderMounted(EmptyStorage)

NextForms ==
    \/ BacktestSetSymbol
    \/ setStrategy
    \/ setStartDate
    \/ setEndDate
    \/ setInitialCash
    \/ setText
    \/ setBatchTexts
    \/ handleBacktest
    \/ SentimentHandleAnalyze
    \/ handleBatchAnalyze
    \/ FormQueryResolves
    \/ FormQueryFails

SpecForms == InitForms /\ [][NextForms]_vars

----------------------------------------------------------------------------
(* Notions the claims are stated with *)

\* x <= y on finite rationals
Le(x, y) == x.n * y.d <= y.n * x.d

Less(x, y) == x.n * y.d < y.n * x.d

RECURSIVE SumOver(_, _)
SumOver(s, I) ==
    IF I = {} THEN Zero
    ELSE LET i == CHOOSE j \in I : TRUE
         IN  JsAdd(s[i], SumOver(s, I \ {i}))

RECURSIVE SumSqOver(_, _)
SumSqOver(s, I) ==
    IF I = {} THEN Zero
    ELSE LET i == CHOOSE j \in I : TRUE
         IN  JsAdd(JsMul(s[i], s[i]), SumSqOver(s, I \ {i}))

Mean(s) == JsDiv(SumOver(s, DOMAIN s), FromInt(Len(s)))

\* population variance, as the mean of the squares less the square of the mean
PopVariance(s) ==
    JsSub(JsDiv(SumSqOver(s, DOMAIN s), FromInt(Len(s))), JsMul(Mean(s), Mean(s)))

\* floor(c * n) for a rational c >= 0
TailIndex(c, n) == (c.n * n) \div c.d

IsAscending(s) == \A i \in 1..(Len(s) - 1) : Le(s[i], s[i + 1])

----------------------------------------------------------------------------
(* C1: calculateVaR returns the absolute value of the order statistic of    *)
(* rank floor(c * n) (0-based) of the returns, and 0 for an empty array.    *)
C1_VaRIsQuantile ==
    last.fn = "calculateVaR" =>
        IF Len(returns) = 0 THEN last.result = Zero
        ELSE LET n == Len(returns)
                 k == TailIndex(last.confidence, n)
             IN  \E i \in 1..n :
                    /\ Cardinality({j \in 1..n : Less(returns[j], returns[i])}) <= k
                    /\ Cardinality({j \in 1..n : Le(returns[j], returns[i])}) >= k + 1
                    /\ last.result = JsAbs(returns[i])

C1_Witness ==
    /\ last.fn = "calculateVaR"
    /\ Len(returns) = 3
    /\ ~IsAscending(returns)
    /\ TailIndex(last.confidence, Len(returns)) = 2
    /\ last.result = Num(1, 10)
    /\ returns[1] = Num(1, 10)

(* C2: when floor(c * n) >= 1, calculateCVaR returns the absolute value of  *)
(* the arithmetic mean of the floor(c * n) smallest returns.                 *)
C2_CVaRIsTailMean ==
    (last.fn = "calculateCVaR" /\ TailIndex(last.confidence, Len(returns)) >= 1) =>
        LET n == Len(returns)
            k == TailIndex(last.confidence, n)
        IN  \E T \in SUBSET (1..n) :
                /\ Cardinality(T) = k
                /\ \A i \in T : \A j \in (1..n) \ T : Le(returns[i], returns[j])
                /\ JsMul(last.result, FromInt(k)) = JsAbs(SumOver(returns, T))

C2_Witness ==
    /\ last.fn = "calculateCVaR"
    /\ Len(returns) = 3
    /\ ~IsAscending(returns)
    /\ TailIndex(last.confidence, Len(returns)) = 2
    /\ last.result = Num(3, 20)

(* C3: for every confidence in (0, 1), calculateCVaR(returns, c) is at      *)
(* least calculateVaR(returns, c); so cvar95 >= var95 and cvar99 >= var99.  *)
C3_CVaRAtLeastVaR ==
    /\ (last.fn = "calculateCVaR" /\ Less(Zero, last.confidence)) =>
            Le(calculateVaR(returns, last.confidence), last.result)
    /\ last.fn = "riskMetrics" =>
            (Le(last.var95, last.cvar95) /\ Le(last.var99, last.cvar99))

----------------------------------------------------------------------------
\* what the routine of a recorded call returns on the inputs g
ResultOn(g, c) ==
    CASE c.fn = "calculateVaR" -> calculateVaR(g.returns, c.confidence)
      [] c.fn = "calculateCVaR" -> calculateCVaR(g.returns, c.confidence)
      [] c.fn = "calculateMaxDrawdown" -> calculateMaxDrawdown(g.prices)
      [] c.fn = "calculateSharpeRatio" -> calculateSharpeRatio(g.returns, c.riskFreeRate)
      [] c.fn = "calculateCorrelationMatrix" -> calculateCorrelationMatrix(g.priceData)
      [] c.fn = "calculateCorrelation" ->
            calculateCorrelation(g.priceData[c.i].prices, g.priceData[c.j].prices)
      [] c.fn = "calculateRSI" -> calculateRSI(g.prices, c.period)
      [] c.fn = "calculateEMA" -> calculateEMA(g.prices, c.period)
      [] c.fn = "calculateMACD" ->
            calculateMACD(g.prices, c.fastPeriod, c.slowPeriod, c.signalPeriod)
      [] c.fn = "calculateBollingerBands" ->
            calculateBollingerBands(g.prices, c.period, c.stdDev)

C6_RSIInRange ==
    last.fn = "calculateRSI" =>
        \A k \in 1..Len(last.result) :
            /\ IsFinite(last.result[k])
            /\ Le(Zero, last.result[k])
            /\ Le(last.result[k], Hundred)

\* the prices of the window of `period` prices that starts at 1-based index k
Window(p, period, k) == SubSeq(p, k, k + period - 1)

(* C7: for n >= period each Bollinger series has n - period + 1 entries;    *)
(* middle is the mean of the window, lower <= middle <= upper, and both     *)
(* half-widths are stdDev times the population standard deviation of the   *)
(* window (stdDev >= 0); for n < period the three series are empty.         *)
C7_BollingerBands ==
    last.fn = "calculateBollingerBands" =>
        LET n == Len(prices)
            bb == last.result
            count == IF n < last.period THEN 0 ELSE n - last.period + 1
        IN  /\ Len(bb.upper) = count
            /\ Len(bb.middle) = count
            /\ Len(bb.lower) = count
            /\ \A k \in 1..count :
                LET w == Window(prices, last.period, k)
                    up == RootSub(bb.upper[k], bb.middle[k])
                    down == RootSub(bb.middle[k], bb.lower[k])
                IN  /\ bb.middle[k] = FromRat(Mean(w))
                    /\ RootLe(bb.lower[k], bb.middle[k])
                    /\ RootLe(bb.middle[k], bb.upper[k])
                    /\ up = down
                    /\ up.a = Zero \/ up.b = Zero
                    /\ RootSquare(up) =
                          JsMul(FromInt(last.stdDev * last.stdDev), PopVariance(w))

C7_Witness ==
    /\ last.fn = "calculateBollingerBands"
    /\ last.period = 3
    /\ last.stdDev = 2
    /\ Len(prices) = 4
    /\ Len(last.result.upper) = 2
    /\ last.result.upper[1].r > 1
    /\ last.result.lower[2] # last.result.upper[2]

\* the exponential moving average: seeded with x[1], then
\* ema[i] = x[i] * k + ema[i - 1] * (1 - k) with k = 2 / (period + 1)
Ema(x, period) ==
    LET k == Num(2, period + 1)
        ema[i \in 1..Len(x)] ==
            IF i = 1 THEN x[1]
            ELSE JsAdd(JsMul(x[i], k), JsMul(ema[i - 1], JsSub(FromInt(1), k)))
    IN  ema

(* C8: for n >= slowPeriod the three MACD series have n entries, macd is    *)
(* the fast EMA less the slow EMA, signal is the EMA of macd over           *)
(* signalPeriod, histogram is macd less signal, and all three start at 0;   *)
(* for n < slowPeriod the three series are empty.                            *)
C8_MACD ==
    last.fn = "calculateMACD" =>
        LET n == Len(prices)
            m == last.result
        IN  IF n < last.slowPeriod
            THEN m.macd = <<>> /\ m.signal = <<>> /\ m.histogram = <<>>
            ELSE LET fast == Ema(prices, last.fastPeriod)
                     slow == Ema(prices, last.slowPeriod)
                     sig == Ema(m.macd, last.signalPeriod)
                 IN
                 /\ Len(m.macd) = n /\ Len(m.signal) = n /\ Len(m.histogram) = n
                 /\ \A i \in 1..n :
                        /\ m.macd[i] = JsSub(fast[i], slow[i])
                        /\ m.signal[i] = sig[i]
                        /\ m.histogram[i] = JsSub(m.macd[i], m.signal[i])
                 /\ n >= 1 => (m.macd[1] = Zero /\ m.signal[1] = Zero
                               /\ m.histogram[1] = Zero)

C8_Witness ==
    /\ last.fn = "calculateMACD"
    /\ last.fastPeriod = 2
    /\ last.slowPeriod = 3
    /\ Len(prices) = 4
    /\ last.result.macd[4] # Zero
    /\ last.result.histogram[4] # Zero
    /\ last.result.signal[4] # last.result.macd[4]

\* the relative decline from prices[i] to prices[j]
Decline(p, i, j) == JsDiv(JsSub(p[i], p[j]), p[i])

(* C9: for positive prices calculateMaxDrawdown is the largest relative     *)
(* decline (p[i] - p[j]) / p[i] over i <= j; it lies in [0, 1) and is 0     *)
(* exactly when no price is lower than an earlier one; 0 for no prices.     *)
C9_MaxDrawdown ==
    last.fn = "calculateMaxDrawdown" =>
        IF Len(prices) = 0 THEN last.result = Zero
        ELSE LET n == Len(prices)
             IN  /\ \E i \in 1..n : \E j \in i..n : last.result = Decline(prices, i, j)
                 /\ \A i \in 1..n : \A j \in i..n : Le(Decline(prices, i, j), last.result)
                 /\ Le(Zero, last.result)
                 /\ Less(last.result, FromInt(1))
                 /\ last.result = Zero <=>
                        ~(\E i \in 1..n : \E j \in i..n : Less(prices[j], prices[i]))

C9_Witness ==
    /\ last.fn = "calculateMaxDrawdown"
    /\ Len(prices) = 4
    /\ prices[1] = FromInt(2)
    /\ prices[2] = FromInt(1)
    /\ last.result = Num(2, 3)

RECURSIVE SumProdOver(_, _, _)
SumProdOver(x, y, I) ==
    IF I = {} THEN Zero
    ELSE LET i == CHOOSE j \in I : TRUE
         IN  JsAdd(JsMul(x[i], y[i]), SumProdOver(x, y, I \ {i}))

\* the covariance of two series of the same length
Covariance(x, y) ==
    JsSub(JsDiv(SumProdOver(x, y, DOMAIN x), FromInt(Len(x))), JsMul(Mean(x), Mean(y)))

\* e is the Pearson correlation of the simple returns of p and q, and 0
\* when the lengths differ, there is no return or a variance is 0
IsPearson(e, p, q) ==
    IF Len(p) # Len(q) \/ Len(p) <= 1 THEN e = FromRat(Zero)
    ELSE LET x == SimpleReturns(p)
             y == SimpleReturns(q)
             vx == PopVariance(x)
             vy == PopVariance(y)
             cov == Covariance(x, y)
         IN  IF vx = Zero \/ vy = Zero THEN e = FromRat(Zero)
             ELSE /\ e.a = Zero \/ e.b = Zero
                  /\ JsMul(RootSquare(e), JsMul(vx, vy)) = JsMul(cov, cov)
                  /\ RootSgn(e) = ISgn(cov.n)

SameLengths(data) ==
    \A i, j \in 1..Len(data) : Len(data[i].prices) = Len(data[j].prices)

----------------------------------------------------------------------------
(* Claims about the analysis runs of RiskAnalysis and TechnicalAnalysis *)

RunFinishes == run # Idle /\ run' = Idle

FailureOutcomes == {"threw", "no data", "no historical data"}

\* C11: every analysis run that sets loading to true is followed by loading
\* being set back to false, whatever the outcome, provided the fetch settles;
\* loading is not left true once the run has finished.
C11_LoadingReset ==
    /\ [](run = Idle => ~loading)
    /\ (loading ~> ~loading)

\* a run that threw has finished and loading is false again
C11_Witness ==
    /\ last \in {[fn |-> f, outcome |-> "threw"] :
                    f \in {"fetchRiskAnalysis", "fetchTechnicalAnalysis"}}
    /\ run = Idle
    /\ ~loading

\* C12: a run that fails (a promise rejects, the result lacks success or
\* data, or no requested symbol has historical data) shows an error message
\* and leaves the displayed results as they were.
C12_FailureKeepsResults ==
    [][(RunFinishes /\ last'.outcome \in FailureOutcomes)
        => /\ message'.type = "error"
           /\ riskMetrics' = riskMetrics
           /\ correlationMatrix' = correlationMatrix
           /\ marketData' = marketData
           /\ indicators' = indicators]_vars

SymbolsOf(entries) == {entries[i].symbol : i \in DOMAIN entries}

\* C19: a displayed correlation matrix lists exactly the symbols of the
\* displayed riskMetrics.
C19_MatrixMatchesMetrics ==
    (riskMetrics # Null /\ correlationMatrix # Null)
        => SymbolsOf(riskMetrics.entries)
             = {correlationMatrix.symbols[i] : i \in DOMAIN correlationMatrix.symbols}

----------------------------------------------------------------------------
(* Claims about the Header's health check and notifications *)

\* the status a completed check sets
StatusOf(check) == IF check = "ok" THEN "connected" ELSE "disconnected"

Completed(i) == checks[i] # "pending"

\* C16: apiStatus is 'checking' from mount until the first health check
\* completes and 'connected' or 'disconnected' from then on, never
\* 'checking' again; a completed check sets it to 'connected' when the
\* response is ok and to 'disconnected' otherwise; a check is started at
\* mount, and further ones only while the Header is mounted.
C16_ApiStatus ==
    /\ [](mounted => (apiStatus = "checking" <=> \A i \in DOMAIN checks : ~Completed(i)))
    /\ [](apiStatus \in {"checking", "connected", "disconnected"} /\ Len(checks) >= 1)
    /\ [][/\ apiStatus # "checking" => apiStatus' # "checking"
          /\ \A i \in DOMAIN checks :
                (mounted /\ ~Completed(i) /\ checks'[i] # "pending")
                    => apiStatus' = StatusOf(checks'[i])
          /\ Len(checks') > Len(checks) => mounted]_vars

\* a later check has failed after an earlier one, the Header still mounted
C16_Witness ==
    /\ mounted
    /\ Len(checks) >= 2
    /\ checks[1] = "ok"
    /\ checks[2] = "threw"
    /\ apiStatus = "disconnected"

\* C17: once overlapping health checks have all completed, apiStatus is the
\* outcome of the check that was started last.
C17_LastStartedWins ==
    (mounted /\ Len(checks) >= 2 /\ \A i \in DOMAIN checks : Completed(i))
        => apiStatus = StatusOf(checks[Len(checks)])

\* C18: after Clear All the notification list is empty and the sample
\* notifications (ids 1 to 3) do not reappear while that Header stays
\* mounted; the badge count is the length of the list.
C18_ClearedStaysCleared ==
    (mounted /\ clearedAll) => \A i \in DOMAIN notifications : notifications[i].id \notin 1..3

----------------------------------------------------------------------------
(* Claims about the Header's profile, settings and logout *)

\* no form has been opened and no logout confirmed since the Header mounted
FreshlyMounted == profileForm = NoFields /\ settingsForm = NoFields /\ ~reloadTimer

\* the step of window.location.reload()
Reloads == reloadTimer /\ ~reloadTimer'

C14_LogoutRestoresDefaults ==
    [][/\ (confirmOpen /\ reloadTimer' /\ ~confirmOpen')
            => localStorage' = EmptyStorage
       /\ Reloads => (userProfile' = DefaultProfile /\ userSettings' = DefaultSettings)
       /\ (confirmOpen /\ ~confirmOpen' /\ ~reloadTimer' /\ ~Reloads)
            => UNCHANGED <<userProfile, userSettings, localStorage>>]_vars

----------------------------------------------------------------------------
(* Claims about routing *)

\* the current location
Location == history[Len(history)]

\* the menu keys are registered paths, and a click on a menu item has led to
\* the page registered for its key
MenuLeadsToRegistered ==
    /\ \A k \in DOMAIN MenuKeys :
        \E i \in Registered : AppRoutes[i].path = MenuKeys[k]
    /\ last.fn = "handleMenuClick"
        => /\ Location = last.key
           /\ \E i \in Registered :
                AppRoutes[i].path = last.key /\ page = AppRoutes[i].element

\* C15 as stated: the page rendered is the one registered for exactly the
\* current path, and Dashboard for every other path; every Sidebar key is a
\* registered path and a click on it leads to the page registered for it.
C15_ExactPathOrDashboard ==
    /\ LET exact == {i \in Registered : AppRoutes[i].path = Location}
       IN  /\ Cardinality(exact) <= 1
           /\ page = IF exact = {} THEN "Dashboard"
                     ELSE AppRoutes[CHOOSE i \in exact : TRUE].element
    /\ MenuLeadsToRegistered

SamePath(a, b) ==
    toLowerCase(StripTrailingSlashes(a)) = toLowerCase(StripTrailingSlashes(b))

\* C15 amended: the page rendered is the one registered for the path that
\* equals the current path up to letter case and trailing slashes, and
\* Dashboard when there is none; the Sidebar part as stated.
C15_PathUpToCaseOrDashboard ==
    /\ LET same == {i \in Registered : SamePath(AppRoutes[i].path, Location)}
       IN  /\ Cardinality(same) <= 1
           /\ page = IF same = {} THEN "Dashboard"
                     ELSE AppRoutes[CHOOSE i \in same : TRUE].element
    /\ MenuLeadsToRegistered

\* the user has clicked a menu item after opening a path in upper case
C15_Witness ==
    /\ Len(history) >= 2
    /\ history[1] = toUpperCase(PathMarket)
    /\ last.fn = "handleMenuClick"
    /\ page = "Backtesting"

----------------------------------------------------------------------------
(* Claims about PortfolioOptimizer *)

\* C20: when the user clicks Optimize or presses Enter, the symbols posted to
\* /api/portfolio/optimize are the trimmed, upper-cased, non-empty tokens of
\* the text shown in the symbols input, in order.
C20_SentSymbolsAreInputTokens ==
    [][last'.fn = "handleOptimize" => sent'.symbols = symbolList(inputValue')]_vars

----------------------------------------------------------------------------
(* Claims about MarketAnalysis *)

\* a ticker as the page keeps it: not empty, no white space around it, no
\* lower-case letter in it
WellFormed(token) ==
    /\ token # <<>>
    /\ ~IsWhiteSpace(token[1])
    /\ ~IsWhiteSpace(token[Len(token)])
    /\ \A i \in DOMAIN token : IndexIn(LowerCase, token[i]) = 0

\* C21: in MarketAnalysis symbols is always the list of the trimmed,
\* upper-cased, non-empty tokens of inputValue, so each of its elements is
\* well formed, and every request issued carries the symbols of the text
\* on screen.
C21_SymbolsAreInputTokens ==
    /\ [](symbols = symbolList(inputValue))
    /\ [](\A i \in DOMAIN symbols : WellFormed(symbols[i]))
    /\ [][last'.request => sent'.symbols = symbolList(inputValue')]_vars

\* a request has gone out for a text with blanks, lower case and an empty token
C21_Witness ==
    /\ inputValue = <<" ">> \o toLowerCase(MSFT) \o <<" ", ",">> \o AAPL \o <<",">>
    /\ symbols = <<MSFT, AAPL>>
    /\ last.fn = "handleSymbolsChange"
    /\ last.request
    /\ sent.symbols = <<MSFT, AAPL>>

----------------------------------------------------------------------------
(* Claims about the requests to /api/market-data *)

\* MarketAnalysis: a step that issues a request posts at least one symbol
MarketNeverPostsEmpty ==
    (page = "MarketAnalysis" /\ last'.request) => Len(sent'.symbols) > 0

\* RiskAnalysis and TechnicalAnalysis: the body of a run in flight names at
\* least one symbol, none of them blank
RunPostsSymbols ==
    run # Idle
        => /\ Len(run.body.symbols) > 0
           /\ \A i \in DOMAIN run.body.symbols : trim(run.body.symbols[i]) # <<>>

\* a click on the page's button with nothing to ask for
EmptyClick(fn, empty) ==
    /\ run = Idle
    /\ empty
    /\ last' # last
    /\ last'.fn = fn

\* such a click shows an error, starts no run and changes neither loading
\* nor the results
OnlyAnError ==
    /\ message'.type = "error"
    /\ run' = Idle
    /\ loading' = loading
    /\ riskMetrics' = riskMetrics
    /\ correlationMatrix' = correlationMatrix
    /\ marketData' = marketData
    /\ indicators' = indicators

EmptyRiskClick ==
    (page = "RiskAnalysis" /\ EmptyClick("fetchRiskAnalysis", Len(symbols) = 0))
        => OnlyAnError

EmptyTechnicalClick ==
    (page = "TechnicalAnalysis"
        /\ EmptyClick("fetchTechnicalAnalysis", trim(symbol) = <<>>))
        => OnlyAnError

\* C22: no market-data request is issued with an empty symbol list: in
\* MarketAnalysis neither the query nor Analyze or Enter sends one; in
\* RiskAnalysis and TechnicalAnalysis a fetch with nothing to ask for shows an
\* error and sends nothing, leaving loading and the results as they were.
C22_NoEmptyRequest ==
    /\ [][MarketNeverPostsEmpty]_vars
    /\ []RunPostsSymbols
    /\ [][EmptyRiskClick /\ EmptyTechnicalClick]_vars

----------------------------------------------------------------------------
(* Claims about Backtesting and SentimentAnalysis *)

\* a request of the query goes out in this step
Issued(name) ==
    /\ queries'[name].isFetching
    /\ \/ ~queries[name].isFetching
       \/ queries'[name].sent # queries[name].sent
       \/ queries'[name].failureCount # queries[name].failureCount

\* the click handler of a query
HandlerOf(name) ==
    CASE name = "backtest" -> "handleBacktest"
      [] name = "sentimentAnalysis" -> "handleAnalyze"
      [] name = "batchSentimentAnalysis" -> "handleBatchAnalyze"

\* the step is a click on the query's button, no input changes in it, and
\* the request carries the values of the inputs
ClickPosts(name) ==
    /\ last'.fn = HandlerOf(name)
    /\ UNCHANGED <<symbol, strategy, startDate, endDate, initialCash, sentimentText,
                   batchTexts>>
    /\ queries'[name].sent = BodyOf(name)

\* the step repeats the request of a click that failed, as it was
RetryPosts(name) ==
    /\ queries[name].isFetching
    /\ queries'[name].failureCount = queries[name].failureCount + 1
    /\ queries'[name].sent = queries[name].sent

\* C23: Backtesting and SentimentAnalysis send nothing on mount or when an
\* input changes: a request to /api/backtest, /api/sentiment or
\* /api/sentiment/batch goes out only in response to a click on its button,
\* with the parameter values current at the time of the click.
C23_RequestsOnlyOnClick ==
    /\ \A name \in QueryNames : ~queries[name].isFetching /\ queries[name].sent = Null
    /\ [][\A name \in QueryNames :
            Issued(name) => (ClickPosts(name) \/ RetryPosts(name))]_vars

\* a backtest has been requested with inputs the user changed
C23_Witness ==
    /\ page = "Backtesting"
    /\ last.fn = "handleBacktest"
    /\ queries["backtest"].isFetching
    /\ queries["backtest"].sent
        = [symbol |-> MSFT, strategy |-> "rsi", start_date |-> "2023-01-01",
           end_date |-> "2023-12-31", initial_cash |-> FromInt(50000)]

\* C24: for every successful backtest response, one with an empty trades
\* list included, the results view renders without throwing: a null chart is
\* never dereferenced.
C24_RenderNeverThrows ==
    page = "Backtesting" => BacktestingRender # "TypeError"

====
